---------------------------- MODULE Spec2Model ----------------------------
(***************************************************************************)
(* Model of the ACE search path of mcp-agentlogs (src/index.js):           *)
(* searchLogs -> searchLogsWithAce -> uploadBlobs -> postAceJson ->         *)
(* fetchWithRetry -> fetchWithTimeout.                                      *)
(*                                                                         *)
(* Strings that the code inspects character by character (error messages,  *)
(* header values, response texts, URLs, queries) are sequences of          *)
(* one-character strings.  A CJK character of the source is written as the  *)
(* token "uXXXX" of its code point, one sequence element per character.     *)
(* A delivered Response is taken whole: status, headers and body text.      *)
(***************************************************************************)
EXTENDS Integers, Sequences, FiniteSets, TLC

(***************************************************************************)
(* Program constants                                                       *)
(***************************************************************************)
\* sensitivity variant of ACE_MAX_BATCH_BYTES: half the threshold
ACE_MAX_BATCH_BYTES_Half == 1048576 \div 2
\* sensitivity variant of ACE_MAX_BATCH_BYTES: twice the threshold
ACE_MAX_BATCH_BYTES_Double == 2 * 1048576
ACE_MAX_BATCH_BYTES == 1048576
\* sensitivity variant of ACE_RETRY_LIMIT: one attempt more
ACE_RETRY_LIMIT_Four == 3 + 1
ACE_RETRY_LIMIT == 3
ACE_RETRY_BASE_MS == 1000
LOG_DIR_NAME == "AgentLogs"

(***************************************************************************)
(* Bounds of the model                                                     *)
(***************************************************************************)
MaxBlobs == 2
MaxUuids == 8
MaxBlocks == 4
MaxChars == 5
MaxLineLimit == 3

(***************************************************************************)
(* Character-level helpers                                                 *)
(***************************************************************************)
Digits == <<"0", "1", "2", "3", "4", "5", "6", "7", "8", "9">>
DigitSet == {Digits[i] : i \in 1..10}
DigitValue(c) == (CHOOSE i \in 1..10 : Digits[i] = c) - 1
WhiteSpace == {" ", "\t", "\n", "\r"}

RECURSIVE Pow2(_)
Pow2(n) == IF n = 0 THEN 1 ELSE 2 * Pow2(n - 1)

\* String.prototype.includes
Includes(s, sub) ==
    \E i \in 0..(Len(s) - Len(sub)) : SubSeq(s, i + 1, i + Len(sub)) = sub

\* String.prototype.startsWith
StartsWith(s, pre) == Len(s) >= Len(pre) /\ SubSeq(s, 1, Len(pre)) = pre
EndsWith(s, suf) ==
    Len(s) >= Len(suf) /\ SubSeq(s, Len(s) - Len(suf) + 1, Len(s)) = suf

RECURSIVE TrimStart(_)
TrimStart(s) ==
    IF s # <<>> /\ Head(s) \in WhiteSpace THEN TrimStart(Tail(s)) ELSE s

RECURSIVE TrimEnd(_)
TrimEnd(s) ==
    IF s # <<>> /\ s[Len(s)] \in WhiteSpace
    THEN TrimEnd(SubSeq(s, 1, Len(s) - 1)) ELSE s

\* String.prototype.trim
Trim(s) == TrimEnd(TrimStart(s))

\* String(n) for a non-negative integer
RECURSIVE NumberToString(_)
NumberToString(n) ==
    IF n < 10 THEN <<Digits[n + 1]>>
    ELSE NumberToString(n \div 10) \o <<Digits[(n % 10) + 1]>>

RECURSIVE DigitPrefix(_)
DigitPrefix(s) ==
    IF s # <<>> /\ Head(s) \in DigitSet
    THEN <<Head(s)>> \o DigitPrefix(Tail(s)) ELSE <<>>

RECURSIVE DigitsToNat(_)
DigitsToNat(d) ==
    IF d = <<>> THEN 0
    ELSE 10 * DigitsToNat(SubSeq(d, 1, Len(d) - 1)) + DigitValue(d[Len(d)])

\* Number.parseInt(s, 10): leading white space is skipped, an optional sign
\* is read, then the longest run of decimal digits; without a digit the
\* result is NaN.
NaN == [nan |-> TRUE, val |-> 0]
ParseInt(s) ==
    LET t == TrimStart(s)
        signed == t # <<>> /\ Head(t) \in {"+", "-"}
        body == IF signed THEN Tail(t) ELSE t
        d == DigitPrefix(body)
    IN  IF d = <<>> THEN NaN
        ELSE [nan |-> FALSE,
              val |-> IF signed /\ Head(t) = "-" THEN 0 - DigitsToNat(d)
                      ELSE DigitsToNat(d)]

\* Number.isFinite on a parseInt result
IsFinite(n) == ~n.nan


(***************************************************************************)
(* String literals of the source                                           *)
(***************************************************************************)
FetchWord == <<"f", "e", "t", "c", "h">>
HttpScheme == <<"h", "t", "t", "p", ":", "/", "/">>
HttpsScheme == <<"h", "t", "t", "p", "s", ":", "/", "/">>
MdSuffix == <<".", "m", "d">>
UploadPath == <<"/", "b", "a", "t", "c", "h", "-", "u", "p", "l", "o", "a", "d">>
RetrievalPath == <<"/", "a", "g", "e", "n", "t", "s", "/", "c", "o", "d", "e", "b", "a", "s", "e", "-", "r", "e", "t", "r", "i", "e", "v", "a", "l">>
MsgQueryEmpty == <<"q", "u", "e", "r", "y", " ", "u4E0D", "u80FD", "u4E3A", "u7A7A">>
MsgConfigMissing == <<"s", "e", "a", "r", "c", "h", "-", "l", "o", "g", "s", " ", "u9700", "u8981", "u914D", "u7F6E", " ", "A", "C", "E", "_", "B", "A", "S", "E", "_", "U", "R", "L", " ", "u548C", " ", "A", "C", "E", "_", "A", "P", "I", "_", "K", "E", "Y">>
MsgBaseUrlEmpty == <<"A", "C", "E", "_", "B", "A", "S", "E", "_", "U", "R", "L", " ", "u4E0D", "u80FD", "u4E3A", "u7A7A">>
MsgBlobNamesEmpty == <<"A", "C", "E", " ", "u8FD4", "u56DE", "u7684", " ", "b", "l", "o", "b", "_", "n", "a", "m", "e", "s", " ", "u4E3A", "u7A7A", "uFF0C", "u65E0", "u6CD5", "u7EE7", "u7EED", "u641C", "u7D22">>
MsgRequestFailed == <<"A", "C", "E", " ", "A", "P", "I", " ", "u8BF7", "u6C42", "u5931", "u8D25">>
TextNothingToSearch == <<"u65E5", "u5FD7", "u76EE", "u5F55", "u4E3A", "u7A7A", "uFF0C", "u6CA1", "u6709", "u53EF", "u641C", "u7D22", "u7684", "u5185", "u5BB9", "u3002">>
TextUploadFailed == <<"u65E5", "u5FD7", "u5185", "u5BB9", "u4E0A", "u4F20", "u5931", "u8D25", "uFF0C", "u65E0", "u6CD5", "u6267", "u884C", "u641C", "u7D22", "u3002">>
TextNotFound == <<"u672A", "u627E", "u5230", "u76F8", "u5173", "u5185", "u5BB9", "u3002">>

(***************************************************************************)
(* Values                                                                  *)
(***************************************************************************)
\* lastError before any assignment (undefined), and an Error object
NoError == [name |-> "undefined", message |-> <<>>]
MkError(name, message) == [name |-> name, message |-> message]

\* headers.get(...): null when the header is absent
NoHeader == [present |-> FALSE, value |-> <<>>]
Header(v) == [present |-> TRUE, value |-> v]

\* a parsed JSON body: a property that is absent reads as undefined
Undefined == [defined |-> FALSE, isArray |-> FALSE, items |-> <<>>, text |-> <<>>]
JsonArray(items) == [defined |-> TRUE, isArray |-> TRUE, items |-> items, text |-> <<>>]
JsonString(t) == [defined |-> TRUE, isArray |-> FALSE, items |-> <<>>, text |-> t]
EmptyObject == [blob_names |-> Undefined, formatted_retrieval |-> Undefined]
NoJson == [parses |-> FALSE, value |-> EmptyObject]
Json(v) == [parses |-> TRUE, value |-> v]

(***************************************************************************)
(* Inputs: the environment of one process                                  *)
(***************************************************************************)
\* process.env.ACE_BASE_URL || '' and process.env.ACE_API_KEY || ''
BaseUrls == { <<>>, <<"h", "t", "t", "p", ":", "/", "/", "a", ".", "i", "o", "/">> }
ApiKeys == { <<>>, <<"k">> }

\* the query argument of search-logs
Queries == { <<>>, <<" ">>, <<" ", "q", " ">> }

\* blobs as collectLogBlobs hands them on: the path and the two lengths that
\* buildBlobBatches adds up
Blobs ==
    { [path |-> "0001-a.md", pathLen |-> 9, contentLen |-> 400000],
      [path |-> "0002-b.md", pathLen |-> 9, contentLen |-> 400000],
      [path |-> "0003-c.md", pathLen |-> 9, contentLen |-> 1100000] }

\* an entry of the log directory: chunks is what splitLogContent makes of the
\* file's content
LogFile(name, blob) ==
    [name |-> name, isFile |-> TRUE, readable |-> TRUE, chunks |-> <<blob>>]
\* the characters of the path of a blob
PathChars(p) ==
    CASE p = "0001-a.md" -> <<"0", "0", "0", "1", "-", "a", ".", "m", "d">>
      [] p = "0002-b.md" -> <<"0", "0", "0", "2", "-", "b", ".", "m", "d">>
      [] p = "0003-c.md" -> <<"0", "0", "0", "3", "-", "c", ".", "m", "d">>
DirEntries ==
    { LogFile(PathChars(blob.path), blob) : blob \in Blobs }
    \cup
    { \* a file that is not a log
      LogFile(<<"t", "o", "d", "o", ".", "t", "x", "t">>,
              [path |-> "todo.txt", pathLen |-> 8, contentLen |-> 10]),
      \* a sub-directory named like a log
      [name |-> <<"o", "l", "d", ".", "m", "d">>, isFile |-> FALSE,
       readable |-> FALSE, chunks |-> <<>>],
      \* a log whose readFile fails
      [name |-> <<"0", "0", "0", "4", "-", "d", ".", "m", "d">>, isFile |-> TRUE,
       readable |-> FALSE, chunks |-> <<>>] }

\* what fs.readdir settles with: ENOENT, or the entries, each name once
Directories ==
    { [exists |-> FALSE, entries |-> <<>>] }
    \cup
    { [exists |-> TRUE, entries |-> l] :
        l \in UNION { { e \in [1..n -> DirEntries] :
                          \A i, j \in 1..n : e[i].name = e[j].name => i = j }
                      : n \in 0..MaxBlobs } }

\* what the service may answer to one attempt
OkStatuses == {200}
ErrorStatuses == {404, 429, 500, 503}
RetryAfterValues ==
    { NoHeader, Header(<<"2">>), Header(<<"s", "o", "o", "n">>) }
ErrorTexts == { <<"N", "o", "t", " ", "F", "o", "u", "n", "d">>,
                <<"c", "a", "n", "n", "o", "t", " ", "f", "e", "t", "c", "h">> }
JsonBodies ==
    { NoJson,
      Json(EmptyObject),
      Json([blob_names |-> JsonArray(<<>>), formatted_retrieval |-> Undefined]),
      Json([blob_names |-> JsonString(<<"n", "1">>), formatted_retrieval |-> Undefined]),
      Json([blob_names |-> JsonArray(<<"n1">>),
            formatted_retrieval |-> JsonString(<<" ">>)]),
      Json([blob_names |-> JsonArray(<<"n2", "n3">>),
            formatted_retrieval |-> JsonString(<<"h", "i", "t", " ">>)]) }

Responses ==
    [status : OkStatuses, retryAfter : {NoHeader}, text : {<<>>}, json : JsonBodies]
    \cup
    [status : ErrorStatuses, retryAfter : RetryAfterValues, text : ErrorTexts,
     json : {NoJson}]

\* what fetch may reject with when no response arrives: the TypeError of
\* Node's fetch, and the connection error of Bun's fetch
Rejections ==
    { MkError("TypeError", <<"f", "e", "t", "c", "h", " ", "f", "a", "i", "l", "e", "d">>),
      MkError("Error", <<"U", "n", "a", "b", "l", "e", " ", "t", "o", " ", "c", "o", "n", "n", "e", "c", "t", ".", " ", "I", "s", " ", "t", "h", "e", " ", "c", "o", "m", "p", "u", "t", "e", "r", " ", "a", "b", "l", "e", " ", "t", "o", " ", "a", "c", "c", "e", "s", "s", " ", "t", "h", "e", " ", "u", "r", "l", "?">>) }

\* what an aborted fetch rejects with
AbortError ==
    MkError("AbortError", <<"T", "h", "i", "s", " ", "o", "p", "e", "r", "a", "t", "i", "o", "n", " ", "w", "a", "s", " ", "a", "b", "o", "r", "t", "e", "d">>)

\* a failure of fs.readdir other than ENOENT
ReaddirError == MkError("Error", <<"E", "A", "C", "C", "E", "S">>)

(***************************************************************************)
(* Pure functions of the source                                            *)
(***************************************************************************)
\* normalizeAceBaseUrl, after its blank check
NormalizeAceBaseUrl(baseUrl) ==
    LET trimmed == Trim(baseUrl)
        schemed == IF StartsWith(trimmed, HttpScheme)
                   THEN HttpsScheme \o SubSeq(trimmed, Len(HttpScheme) + 1, Len(trimmed))
                   ELSE IF ~StartsWith(trimmed, HttpsScheme)
                        THEN HttpsScheme \o trimmed
                        ELSE trimmed
        RECURSIVE StripSlashes(_)
        StripSlashes(u) == IF u # <<>> /\ u[Len(u)] = "/"
                           THEN StripSlashes(SubSeq(u, 1, Len(u) - 1)) ELSE u
    IN  StripSlashes(schemed)

BlobSize(blob) == blob.contentLen + blob.pathLen

\* sensitivity variant of Flushed: the batch being filled is left out
FlushedNever(st) == st.batches
\* buildBlobBatches after its loop: the batch being filled is pushed
Flushed(st) ==
    IF Len(st.current) > 0 THEN Append(st.batches, st.current) ELSE st.batches

\* buildBlobBatches: st is the loop state after the blobs before index i
RECURSIVE BuildLoop(_, _, _)
BuildLoop(blobs, i, st) ==
    IF i > Len(blobs)
    THEN Flushed(st)
    ELSE LET blob == blobs[i]
             blobSize == BlobSize(blob)
             flush == Len(st.current) > 0
                      /\ st.currentSize + blobSize > ACE_MAX_BATCH_BYTES
             opened == IF flush
                       THEN [batches |-> Append(st.batches, st.current),
                             current |-> <<>>, currentSize |-> 0]
                       ELSE st
         IN  BuildLoop(blobs, i + 1,
                       [batches |-> opened.batches,
                        current |-> Append(opened.current, blob),
                        currentSize |-> opened.currentSize + blobSize])

buildBlobBatches(blobs) ==
    BuildLoop(blobs, 1, [batches |-> <<>>, current |-> <<>>, currentSize |-> 0])

\* sensitivity variant of IsOk: no upper end of the range
IsOkAnyStatus(status) == status >= 200
\* response.ok
IsOk(status) == status >= 200 /\ status <= 299

\* the status test of the retry branch
IsRetryableStatus(status) == status = 429 \/ status >= 500

\* sensitivity variant of MayRetry: the last attempt is retried too
MayRetryAlways(attempt) == TRUE
\* the attempt test of both retry branches
MayRetry(attempt) == attempt < ACE_RETRY_LIMIT - 1

\* sensitivity variant of Backoff: no growth
BackoffFlat(attempt) == ACE_RETRY_BASE_MS
\* ACE_RETRY_BASE_MS * Math.pow(2, attempt)
Backoff(attempt) == ACE_RETRY_BASE_MS * Pow2(attempt)

\* sensitivity variant of RetryAfterMs: seconds taken as milliseconds
RetryAfterMsUnscaled(response, attempt) ==
    LET retryAfter == ParseInt(IF response.retryAfter.present
                               THEN response.retryAfter.value ELSE <<>>)
    IN  IF IsFinite(retryAfter) THEN retryAfter.val ELSE Backoff(attempt)
\* the wait before the retry of a 429 or 5xx response
RetryAfterMs(response, attempt) ==
    LET retryAfter == ParseInt(IF response.retryAfter.present
                               THEN response.retryAfter.value ELSE <<>>)
    IN  IF IsFinite(retryAfter) THEN retryAfter.val * 1000 ELSE Backoff(attempt)

\* the Error thrown for a response that is neither ok nor retried
FailureError(response) ==
    MkError("Error",
            MsgRequestFailed \o <<" ", "(">> \o NumberToString(response.status)
                \o <<")", ":", " ">> \o response.text)

\* sensitivity variant of IsAbort: another error name
IsAbortByTimeoutName(error) == error.name = "TimeoutError"
\* the two tests of the catch block
IsAbort(error) == error.name = "AbortError"
IsNetwork(error) == Includes(error.message, FetchWord)

\* sensitivity variant of IsBlankQuery: the query is not trimmed
IsBlankQueryUntrimmed(q) == q = <<>>
\* the query test of searchLogs
IsBlankQuery(q) == q = <<>> \/ Trim(q) = <<>>

\* sensitivity variant of IsLogFile: files of any name are read
IsLogFileAnyName(entry) == entry.isFile
\* the entry test of collectLogBlobs
IsLogFile(entry) == entry.isFile /\ EndsWith(entry.name, MdSuffix)

\* the loop of collectLogBlobs over the entries from index i on
RECURSIVE CollectLoop(_, _, _)
CollectLoop(entries, i, blobs) ==
    IF i > Len(entries) THEN blobs
    ELSE LET entry == entries[i]
         IN  IF ~IsLogFile(entry) THEN CollectLoop(entries, i + 1, blobs)
             ELSE IF ~entry.readable THEN CollectLoop(entries, i + 1, blobs)
             ELSE CollectLoop(entries, i + 1, blobs \o entry.chunks)

collectLogBlobs(dir) ==
    IF ~dir.exists THEN <<>> ELSE CollectLoop(dir.entries, 1, <<>>)

\* what the log directory holds, told without reading it
DirKind(dir) ==
    IF ~dir.exists THEN "missing"
    ELSE IF \E i \in 1..Len(dir.entries) :
                /\ dir.entries[i].isFile
                /\ dir.entries[i].readable
                /\ EndsWith(dir.entries[i].name, MdSuffix)
    THEN "documents"
    ELSE "noReadableMd"

\* sensitivity variant of HasBlobNames: an empty list passes
HasBlobNamesAnyList(result) == result.blob_names.isArray
\* the test uploadBlobs makes of a batch's parsed response
HasBlobNames(result) ==
    ~(~result.blob_names.isArray \/ Len(result.blob_names.items) = 0)

\* sensitivity variant of NoSessionId: an identifier is drawn at every call
NoSessionIdEver(id) == TRUE
\* the test of getAceSessionId: !aceSessionId
NoSessionId(id) == id = 0

\* sensitivity variant of RetryRequestId: the headers of the first attempt
\* are sent again
RetryRequestIdKept(previous, fresh) == previous
\* the x-request-id of a later pass of the loop of fetchWithRetry
RetryRequestId(previous, fresh) == fresh

\* sensitivity variant of PushNames: the names of the latest batch only
PushNamesLatest(names, items) == items
\* blobNames.push(...result.blob_names)
PushNames(names, items) == names \o items

\* sensitivity variant of AbortFetch: the signal does not reach the fetch
AbortFetchUnsignalled(flying, id) == flying
\* controller.abort() ends the fetch that was given controller.signal
AbortFetch(flying, id) == flying \ {id}

\* sensitivity variant of FormattedResult: the text is not trimmed
FormattedResultUntrimmed(result) ==
    LET formatted == IF result.formatted_retrieval.defined
                     THEN result.formatted_retrieval.text ELSE <<>>
    IN  IF formatted # <<>> THEN formatted ELSE TextNotFound
\* the results searchLogsWithAce makes of the parsed retrieval response
FormattedResult(result) ==
    LET formatted == Trim(IF result.formatted_retrieval.defined
                          THEN result.formatted_retrieval.text ELSE <<>>)
    IN  IF formatted # <<>> THEN formatted ELSE TextNotFound

\* safeReadJson
SafeReadJson(response) ==
    IF response.json.parses THEN response.json.value ELSE EmptyObject

(***************************************************************************)
(* State                                                                   *)
(***************************************************************************)
VARIABLES
    env,            \* [baseUrl, apiKey]: ACE_BASE_URL and ACE_API_KEY
    aceSessionId,   \* 0 while undefined, else the UUID drawn for it
    uuidCount,      \* UUIDs drawn so far; randomUUID() yields the next one
    pc,             \* where the search is suspended
    query,          \* the trimmed query of the running search
    baseUrl,        \* the normalized base URL
    batches,        \* uploadBlobs: the batches
    batchIdx,       \* uploadBlobs: index of the batch being uploaded
    blobNames,      \* uploadBlobs: names pooled so far
    call,           \* logical call in progress: "none", "upload", "retrieve"
    attempt,        \* fetchWithRetry: loop index
    lastError,      \* fetchWithRetry: lastError
    waitMs,         \* argument of the sleep in progress
    request,        \* the request of the latest attempt
    controller,     \* fetchWithTimeout: the attempt's AbortController and timer
    response,       \* the response fetchWithRetry returned
    outcome,        \* what searchLogs returned or threw
    callAttempts,   \* history: fetch calls of the logical call in progress
    totalAttempts,  \* history: fetch calls of the search
    statusLog,      \* history: status of each ended attempt of the call, 0 = rejected
    lastOutcome,    \* history: how the latest attempt ended
    inFlight,       \* x-request-id of every fetch neither settled nor aborted
    callLog,        \* history: kind of each postAceJson call, in call order
    namesLog,       \* history: blob_names of each uploaded batch, in order
    logDirKind,     \* history: what the log directory held when it was read
    readdirCalls,   \* history: fs.readdir calls of the search
    queryArg,       \* history: the query argument as the caller passed it
    searches,       \* SpecSessions: where each of the overlapping searches is
    sent,           \* SpecSessions: the headers of every fetch call, in call order
    blobsArg,       \* SpecBatches: the argument of buildBlobBatches
    callArg,        \* a function applied on its own: its arguments
    callResult,     \* a function applied on its own: what it returned or threw
    cancelled,      \* SpecCancel: the caller cancelled the search-logs request
    logDirName,     \* LOG_DIR_NAME of the process that records logs
    disk,           \* the log directory and .gitignore on disk
    records,        \* where each record-agent-log call is
    fsWrites        \* history: mkdir and writeFile calls made so far

vars == <<env, aceSessionId, uuidCount, pc, query, baseUrl, batches, batchIdx,
          blobNames, call, attempt, lastError, waitMs, request, controller,
          response, outcome, callAttempts, totalAttempts, statusLog, lastOutcome,
          inFlight, callLog, namesLog, logDirKind, readdirCalls, queryArg,
          searches, sent, blobsArg, callArg, callResult, cancelled, logDirName,
          disk, records, fsWrites>>

\* the variables of the other specifications
otherVars == <<searches, sent, blobsArg, callArg, callResult, cancelled, logDirName,
               disk, records, fsWrites>>

\* the variables of a function applied on its own, and of the log store
applyVars == <<callArg, callResult>>
storeVars == <<logDirName, disk, records, fsWrites>>

NoDisk == [dirExists |-> FALSE, files |-> {},
           gitignore |-> [exists |-> FALSE, text |-> <<>>]]
NoApply == callArg = <<>> /\ callResult = <<>>
NoCancel == cancelled = FALSE
NoStore == logDirName = <<>> /\ disk = NoDisk /\ records = <<>> /\ fsWrites = 0

NoRequest == [url |-> <<>>, sessionId |-> 0, requestId |-> 0, kind |-> "none",
              blobs |-> <<>>, information_request |-> <<>>, added_blobs |-> <<>>,
              deleted_blobs |-> <<>>, checkpoint_id |-> "null"]
NoController == [id |-> 0, aborted |-> FALSE, timer |-> FALSE]
NoResponse == [status |-> 0, retryAfter |-> NoHeader, text |-> <<>>, json |-> NoJson]
NoOutcome == [kind |-> "none", error |-> NoError, response |-> NoResponse]
Pending == [kind |-> "pending", error |-> NoError,
            value |-> [query |-> <<>>, results |-> <<>>, logDir |-> ""]]
Returned(q, results) ==
    [kind |-> "returned", error |-> NoError,
     value |-> [query |-> q, results |-> results, logDir |-> LOG_DIR_NAME]]
Thrown(error) ==
    [kind |-> "thrown", error |-> error,
     value |-> [query |-> <<>>, results |-> <<>>, logDir |-> ""]]

\* the process after its module code ran, before any tool call
InitProcess ==
    /\ env \in [baseUrl : BaseUrls, apiKey : ApiKeys]
    /\ aceSessionId = 0
    /\ uuidCount = 0
    /\ pc = "idle"
    /\ query = <<>>
    /\ baseUrl = <<>>
    /\ batches = <<>>
    /\ batchIdx = 0
    /\ blobNames = <<>>
    /\ call = "none"
    /\ attempt = 0
    /\ lastError = NoError
    /\ waitMs = 0
    /\ request = NoRequest
    /\ controller = NoController
    /\ response = NoResponse
    /\ outcome = Pending
    /\ callAttempts = 0
    /\ totalAttempts = 0
    /\ statusLog = <<>>
    /\ lastOutcome = NoOutcome
    /\ inFlight = {}
    /\ callLog = <<>>
    /\ namesLog = <<>>
    /\ logDirKind = "unread"
    /\ readdirCalls = 0
    /\ queryArg = <<>>

Init ==
    /\ InitProcess
    /\ searches = <<>>
    /\ sent = <<>>
    /\ blobsArg = <<>>
    /\ NoApply
    /\ NoCancel
    /\ NoStore

(***************************************************************************)
(* Steps shared by the actions                                             *)
(***************************************************************************)
\* the search ends: searchLogs returns or throws
Finish(result) ==
    /\ pc' = IF result.kind = "returned" THEN "returned" ELSE "thrown"
    /\ outcome' = result

\* sensitivity variant of InitialAttempt: the index is shared by the calls
InitialAttemptKept == attempt
\* the loop variable of fetchWithRetry at its start
InitialAttempt == 0

\* one pass of the loop body up to the await of fetch: the headers with a new
\* x-request-id, and fetchWithTimeout's controller, timer and fetch call;
\* issued is the number of fetch calls of the logical call, this one included
IssueAttempt(req, uuids, issued) ==
    /\ request' = [req EXCEPT !.requestId = uuids + 1]
    /\ uuidCount' = uuids + 1
    /\ controller' = [id |-> uuids + 1, aborted |-> FALSE, timer |-> TRUE]
    /\ callAttempts' = issued
    /\ totalAttempts' = totalAttempts + 1
    /\ inFlight' = inFlight \cup {uuids + 1}
    /\ pc' = "fetching"

\* what postAceJson and fetchWithRetry assign
callVars == <<aceSessionId, uuidCount, call, attempt, lastError, statusLog,
              request, controller, callAttempts, totalAttempts, inFlight, callLog>>

\* the histories of what the search read and was given
readVars == <<logDirKind, readdirCalls, queryArg>>

\* postAceJson and the start of fetchWithRetry
BeginCall(kind, req) ==
    LET drawn == NoSessionId(aceSessionId)
        session == IF drawn THEN uuidCount + 1 ELSE aceSessionId
        uuids == IF drawn THEN uuidCount + 1 ELSE uuidCount
    IN  /\ aceSessionId' = session
        /\ call' = kind
        /\ attempt' = InitialAttempt
        /\ lastError' = NoError
        /\ statusLog' = <<>>
        /\ callLog' = Append(callLog, kind)
        /\ IssueAttempt([req EXCEPT !.sessionId = session], uuids, 1)

UploadRequest(url, batch) ==
    [NoRequest EXCEPT !.url = url \o UploadPath, !.kind = "upload", !.blobs = batch]

RetrievalRequest(url, q, names) ==
    [NoRequest EXCEPT !.url = url \o RetrievalPath, !.kind = "retrieve",
                      !.information_request = q, !.added_blobs = names]

\* sensitivity variant of Catch: a failure becomes a default result
CatchAndDefault(error) ==
    /\ lastError' = error
    /\ IF (IsAbort(error) \/ IsNetwork(error)) /\ MayRetry(attempt)
       THEN /\ waitMs' = Backoff(attempt)
            /\ pc' = "sleeping"
            /\ UNCHANGED outcome
       ELSE /\ Finish(Returned(query, TextUploadFailed))
            /\ UNCHANGED waitMs
\* the catch block of fetchWithRetry
Catch(error) ==
    /\ lastError' = error
    /\ IF (IsAbort(error) \/ IsNetwork(error)) /\ MayRetry(attempt)
       THEN /\ waitMs' = Backoff(attempt)
            /\ pc' = "sleeping"
            /\ UNCHANGED outcome
       ELSE /\ Finish(Thrown(error))
            /\ UNCHANGED waitMs

\* the loop of uploadBlobs from batch idx on, and what searchLogsWithAce does
\* with the names it returns
UploadNext(bs, idx, names) ==
    IF idx <= Len(bs)
    THEN /\ batchIdx' = idx
         /\ BeginCall("upload", UploadRequest(baseUrl, bs[idx]))
         /\ UNCHANGED outcome
    ELSE /\ UNCHANGED batchIdx
         /\ IF Len(names) = 0
            THEN /\ Finish(Returned(query, TextUploadFailed))
                 /\ UNCHANGED callVars
            ELSE /\ BeginCall("retrieve", RetrievalRequest(baseUrl, query, names))
                 /\ UNCHANGED outcome

(***************************************************************************)
(* Actions                                                                 *)
(***************************************************************************)
\* searchLogs({ query }) up to the await of collectLogBlobs
searchLogs(q) ==
    /\ UNCHANGED otherVars
    /\ pc = "idle"
    /\ queryArg' = q
    /\ IF IsBlankQuery(q)
       THEN /\ Finish(Thrown(MkError("Error", MsgQueryEmpty)))
            /\ UNCHANGED <<query, baseUrl, readdirCalls>>
       ELSE IF env.baseUrl = <<>> \/ env.apiKey = <<>>
       THEN /\ Finish(Thrown(MkError("Error", MsgConfigMissing)))
            /\ UNCHANGED <<query, baseUrl, readdirCalls>>
       ELSE IF Trim(env.baseUrl) = <<>>
       THEN /\ Finish(Thrown(MkError("Error", MsgBaseUrlEmpty)))
            /\ UNCHANGED <<query, baseUrl, readdirCalls>>
       ELSE /\ query' = Trim(q)
            /\ baseUrl' = NormalizeAceBaseUrl(env.baseUrl)
            /\ readdirCalls' = readdirCalls + 1
            /\ pc' = "collecting"
            /\ UNCHANGED outcome
    /\ UNCHANGED <<env, batches, batchIdx, blobNames, waitMs, response, lastOutcome,
                   namesLog, logDirKind>>
    /\ UNCHANGED callVars

\* fs.readdir settles with dir and collectLogBlobs reads its files and returns
\* the blobs; uploadBlobs runs up to its first fetch
CollectLogBlobsReturns(dir) ==
    /\ UNCHANGED otherVars
    /\ pc = "collecting"
    /\ logDirKind' = DirKind(dir)
    /\ LET blobs == collectLogBlobs(dir)
       IN  IF Len(blobs) = 0
           THEN /\ Finish(Returned(query, TextNothingToSearch))
                /\ UNCHANGED <<batches, batchIdx, blobNames>>
                /\ UNCHANGED callVars
           ELSE /\ batches' = buildBlobBatches(blobs)
                /\ blobNames' = <<>>
                /\ UploadNext(batches', 1, <<>>)
    /\ UNCHANGED <<env, query, baseUrl, waitMs, response, lastOutcome, namesLog,
                   readdirCalls, queryArg>>

\* collectLogBlobs rethrows a readdir failure other than ENOENT
CollectLogBlobsThrows ==
    /\ UNCHANGED otherVars
    /\ pc = "collecting"
    /\ Finish(Thrown(ReaddirError))
    /\ UNCHANGED <<env, query, baseUrl, batches, batchIdx, blobNames, waitMs,
                   response, lastOutcome, namesLog>>
    /\ UNCHANGED callVars
    /\ UNCHANGED readVars

\* the fetch of the attempt resolves with a response
FetchResolves(resp) ==
    /\ UNCHANGED otherVars
    /\ pc = "fetching"
    /\ controller' = [controller EXCEPT !.timer = FALSE]
    /\ lastOutcome' = [kind |-> "response", error |-> NoError, response |-> resp]
    /\ statusLog' = Append(statusLog, resp.status)
    /\ inFlight' = inFlight \ {request.requestId}
    /\ IF IsOk(resp.status)
       THEN /\ response' = resp
            /\ pc' = "reading"
            /\ UNCHANGED <<lastError, waitMs, outcome>>
       ELSE IF IsRetryableStatus(resp.status) /\ MayRetry(attempt)
       THEN /\ waitMs' = RetryAfterMs(resp, attempt)
            /\ pc' = "sleeping"
            /\ UNCHANGED <<lastError, response, outcome>>
       ELSE /\ Catch(FailureError(resp))
            /\ UNCHANGED response
    /\ UNCHANGED <<env, aceSessionId, uuidCount, query, baseUrl, batches, batchIdx,
                   blobNames, call, attempt, request, callAttempts, totalAttempts,
                   callLog, namesLog>>
    /\ UNCHANGED readVars

\* the fetch of the attempt rejects before any response
FetchRejects(error) ==
    /\ UNCHANGED otherVars
    /\ pc = "fetching"
    /\ controller' = [controller EXCEPT !.timer = FALSE]
    /\ lastOutcome' = [kind |-> "rejected", error |-> error, response |-> NoResponse]
    /\ statusLog' = Append(statusLog, 0)
    /\ inFlight' = inFlight \ {request.requestId}
    /\ Catch(error)
    /\ UNCHANGED <<env, aceSessionId, uuidCount, query, baseUrl, batches, batchIdx,
                   blobNames, call, attempt, request, response, callAttempts,
                   totalAttempts, callLog, namesLog>>
    /\ UNCHANGED readVars

\* the timer of the attempt fires: controller.abort() rejects the fetch
AttemptTimesOut ==
    /\ UNCHANGED otherVars
    /\ pc = "fetching"
    /\ controller.timer
    /\ controller' = [controller EXCEPT !.aborted = TRUE, !.timer = FALSE]
    /\ lastOutcome' = [kind |-> "timeout", error |-> AbortError, response |-> NoResponse]
    /\ statusLog' = Append(statusLog, 0)
    /\ inFlight' = AbortFetch(inFlight, controller.id)
    /\ Catch(AbortError)
    /\ UNCHANGED <<env, aceSessionId, uuidCount, query, baseUrl, batches, batchIdx,
                   blobNames, call, attempt, request, response, callAttempts,
                   totalAttempts, callLog, namesLog>>
    /\ UNCHANGED readVars

\* the sleep ends: continue, the loop test, and the next pass up to its fetch
SleepElapses ==
    /\ UNCHANGED otherVars
    /\ pc = "sleeping"
    /\ attempt' = attempt + 1
    /\ IF attempt' < ACE_RETRY_LIMIT
       THEN /\ IssueAttempt(request, uuidCount, callAttempts + 1)
            /\ UNCHANGED outcome
       ELSE /\ Finish(Thrown(IF lastError # NoError THEN lastError
                             ELSE MkError("Error", MsgRequestFailed)))
            /\ UNCHANGED <<request, uuidCount, controller, callAttempts, totalAttempts,
                           inFlight>>
    /\ UNCHANGED <<env, aceSessionId, query, baseUrl, batches, batchIdx, blobNames,
                   call, lastError, waitMs, response, statusLog, lastOutcome,
                   callLog, namesLog>>
    /\ UNCHANGED readVars

\* uploadBlobs after safeReadJson of a batch's response
UploadResponseRead ==
    /\ UNCHANGED otherVars
    /\ pc = "reading"
    /\ call = "upload"
    /\ LET result == SafeReadJson(response)
       IN  IF ~HasBlobNames(result)
           THEN /\ Finish(Thrown(MkError("Error", MsgBlobNamesEmpty)))
                /\ UNCHANGED <<blobNames, batchIdx, namesLog>>
                /\ UNCHANGED callVars
           ELSE /\ blobNames' = PushNames(blobNames, result.blob_names.items)
                /\ namesLog' = Append(namesLog, result.blob_names.items)
                /\ UploadNext(batches, batchIdx + 1, blobNames')
    /\ UNCHANGED <<env, query, baseUrl, batches, waitMs, response, lastOutcome>>
    /\ UNCHANGED readVars

\* searchLogsWithAce after safeReadJson of the retrieval response
RetrievalResponseRead ==
    /\ UNCHANGED otherVars
    /\ pc = "reading"
    /\ call = "retrieve"
    /\ Finish(Returned(query, FormattedResult(SafeReadJson(response))))
    /\ UNCHANGED <<env, query, baseUrl, batches, batchIdx, blobNames, waitMs,
                   response, lastOutcome, namesLog>>
    /\ UNCHANGED callVars
    /\ UNCHANGED readVars

Next ==
    \/ \E q \in Queries : searchLogs(q)
    \/ \E dir \in Directories : CollectLogBlobsReturns(dir)
    \/ CollectLogBlobsThrows
    \/ \E resp \in Responses : FetchResolves(resp)
    \/ \E error \in Rejections : FetchRejects(error)
    \/ AttemptTimesOut
    \/ SleepElapses
    \/ UploadResponseRead
    \/ RetrievalResponseRead

Spec == Init /\ [][Next]_vars

(***************************************************************************)
(* Properties of the executor and of the search                            *)
(***************************************************************************)
IsRetryableOutcome(s) == s = 429 \/ (s >= 500 /\ s <= 599)
IsSuccess(s) == s \in 200..299
LastStatus == IF statusLog = <<>> THEN 0 ELSE statusLog[Len(statusLog)]
CallOpen == pc \in {"fetching", "sleeping"}
CarriesStatus(error, s) ==
    /\ error.name = "Error"
    /\ Includes(error.message, <<"(">> \o NumberToString(s) \o <<")">>)
NoIntegerRetryAfter(resp) ==
    ~resp.retryAfter.present \/ ParseInt(resp.retryAfter.value).nan

\* C1: whatever the outcomes of the attempts, one logical call issues at most
\* 3 fetch calls, and so sees at most 3 outcomes.
C1_AtMostThreeAttempts ==
    /\ callAttempts <= 3
    /\ Len(statusLog) <= 3
    /\ Len(statusLog) <= callAttempts

\* a call that used all 3 attempts on a mix of outcomes: a 429, a timeout
\* and a rejection
C1_Witness ==
    /\ pc = "thrown"
    /\ callAttempts = 3
    /\ statusLog = <<429, 0, 0>>
    /\ lastOutcome.kind = "rejected"

\* C2: a status that is not 2xx, not 429 and not 5xx ends the call at once
\* with an error carrying the status, for every body text; a 404 on the
\* first attempt leaves the call at exactly 1 attempt.
C2_FatalStatusEndsCall ==
    (/\ lastOutcome.kind = "response"
     /\ statusLog # <<>>
     /\ ~IsSuccess(LastStatus)
     /\ ~IsRetryableOutcome(LastStatus))
    => /\ pc = "thrown"
       /\ CarriesStatus(outcome.error, LastStatus)
       /\ (statusLog[1] = 404 => callAttempts = 1)

\* C3: a call whose attempts all end in 429 or 5xx makes exactly 3 attempts
\* and then throws the error of the third one, which carries its status.
C3_ExhaustedRetriesSurfaceLastError ==
    (statusLog # <<>> /\ \A i \in 1..Len(statusLog) : IsRetryableOutcome(statusLog[i]))
    => /\ Len(statusLog) < 3 => CallOpen
       /\ Len(statusLog) >= 3 =>
            /\ pc = "thrown"
            /\ callAttempts = 3
            /\ Len(statusLog) = 3
            /\ CarriesStatus(outcome.error, statusLog[3])
            /\ outcome.error.message =
                 MsgRequestFailed \o <<" ", "(">> \o NumberToString(statusLog[3])
                    \o <<")", ":", " ">> \o lastOutcome.response.text

\* three retryable responses of different status, the last a 503
C3_Witness ==
    /\ pc = "thrown"
    /\ statusLog = <<500, 429, 503>>
    /\ CarriesStatus(outcome.error, 503)

\* C4: fetchWithRetry hands a response to its caller only if it is a 2xx, the
\* first 2xx of the call and its last attempt; a call that ends otherwise
\* ends in an error.
C4_OnlySuccessReturned ==
    /\ \A i \in 1..(Len(statusLog) - 1) : ~IsSuccess(statusLog[i])
    /\ pc = "reading" =>
         /\ IsSuccess(response.status)
         /\ lastOutcome.kind = "response"
         /\ lastOutcome.response = response
         /\ LastStatus = response.status
         /\ callAttempts = Len(statusLog)
    /\ (statusLog # <<>> /\ IsSuccess(LastStatus)) => ~CallOpen
    /\ (statusLog # <<>> /\ ~IsSuccess(LastStatus) /\ ~CallOpen) =>
         /\ pc = "thrown"
         /\ outcome.kind = "thrown"
         /\ outcome.error # NoError

\* a 2xx on the third attempt, after two retried failures, is handed over
C4_Witness ==
    /\ pc = "reading"
    /\ Len(statusLog) = 3
    /\ statusLog[1] = 500
    /\ statusLog[2] = 0
    /\ response.status = 200

\* C5: a timeout aborts the controller of that attempt only; on the 1st or
\* 2nd attempt the same call sleeps the exponential delay and then makes a
\* new attempt with a new, unaborted controller; on the 3rd attempt the
\* abort error is thrown to the caller.
C5_TimeoutAbortsOneAttempt ==
    /\ [][(pc = "fetching" /\ lastOutcome'.kind = "timeout" /\ statusLog' # statusLog)
          => /\ controller'.aborted
             /\ controller'.id = request.requestId
             /\ IF attempt < 2
                THEN /\ pc' = "sleeping"
                     /\ waitMs' = 1000 * Pow2(attempt)
                     /\ outcome' = outcome
                     /\ call' = call
                     /\ batchIdx' = batchIdx
                ELSE /\ pc' = "thrown"
                     /\ outcome'.error.name = "AbortError"]_vars
    /\ [][(pc = "sleeping" /\ lastOutcome.kind = "timeout")
          => /\ pc' = "fetching"
             /\ ~controller'.aborted
             /\ controller'.timer
             /\ controller'.id # controller.id
             /\ call' = call
             /\ request'.url = request.url
             /\ callAttempts' = callAttempts + 1]_vars

\* the attempt after a timed-out first attempt is in flight
C5_Witness ==
    /\ pc = "fetching"
    /\ lastOutcome.kind = "timeout"
    /\ statusLog = <<0>>
    /\ callAttempts = 2
    /\ ~controller.aborted

\* C6: a rejection of fetch before any response, on the 1st or 2nd attempt,
\* is always followed by another attempt, whatever the error's name or
\* message.
C6_TransportFailureRetried ==
    (lastOutcome.kind \in {"rejected", "timeout"} /\ Len(statusLog) < 3)
    => CallOpen

\* C7: a 429 or 5xx on the 1st or 2nd attempt whose Retry-After is the
\* integer n is followed by a sleep of n * 1000 ms.
C7_RetryAfterSeconds ==
    (/\ lastOutcome.kind = "response"
     /\ statusLog # <<>>
     /\ IsRetryableOutcome(LastStatus)
     /\ Len(statusLog) < 3
     /\ lastOutcome.response.retryAfter.present)
    => /\ CallOpen
       /\ \A n \in 0..9 :
            (pc = "sleeping" /\ lastOutcome.response.retryAfter.value = NumberToString(n))
            => waitMs = n * 1000

\* a 429 with Retry-After: 2 on the second attempt: 2000 ms are slept
C7_Witness ==
    /\ pc = "sleeping"
    /\ attempt = 1
    /\ LastStatus = 429
    /\ lastOutcome.response.retryAfter = Header(<<"2">>)
    /\ waitMs = 2000

\* C8: a sleep that follows a failure without an integer Retry-After lasts
\* 1000 ms after the 1st attempt and 2000 ms after the 2nd, whatever the
\* failures were.
C8_ExponentialBackoff ==
    (/\ pc = "sleeping"
     /\ \/ lastOutcome.kind \in {"rejected", "timeout"}
        \/ /\ lastOutcome.kind = "response"
           /\ IsRetryableOutcome(LastStatus)
           /\ NoIntegerRetryAfter(lastOutcome.response))
    => /\ attempt = Len(statusLog) - 1
       /\ attempt \in {0, 1}
       /\ attempt = 0 => waitMs = 1000
       /\ attempt = 1 => waitMs = 2000

\* the sleep after a second failure of another kind than the first
C8_Witness ==
    /\ pc = "sleeping"
    /\ statusLog = <<0, 503>>
    /\ NoIntegerRetryAfter(lastOutcome.response)
    /\ waitMs = 2000

\* C9: every logical call starts at attempt 0 with no error recorded and a
\* budget of 3 attempts, and its first backoff is 1000 ms, however many
\* attempts the earlier calls took; a search over B batches makes at most
\* 3 * (B + 1) fetch calls.
C9_RetryStatePerCall ==
    /\ totalAttempts <= 3 * (Len(batches) + 1)
    /\ callAttempts <= 3
    /\ (pc = "fetching" /\ callAttempts = 1) =>
         /\ attempt = 0
         /\ lastError = NoError
         /\ statusLog = <<>>
    /\ CallOpen => callAttempts = attempt + 1
    /\ (pc = "sleeping" /\ Len(statusLog) = 1 /\ lastOutcome.kind # "response")
         => waitMs = 1000

\* the retrieval call starts afresh after two upload calls of 3 attempts each
C9_Witness ==
    /\ pc = "fetching"
    /\ call = "retrieve"
    /\ Len(batches) = 2
    /\ totalAttempts = 7
    /\ callAttempts = 1
    /\ attempt = 0

\* C10: the search returns a result only when no network call was made or
\* every call succeeded; when a call fails the search throws the error of
\* that call, and it never returns the "upload failed" text.
C10_FailurePropagates ==
    /\ outcome.kind = "returned" =>
         /\ pc = "returned"
         /\ outcome.value.results # TextUploadFailed
         /\ \/ totalAttempts = 0
            \/ /\ call = "retrieve"
               /\ IsSuccess(LastStatus)
               /\ batchIdx = Len(batches)
               /\ Len(blobNames) > 0
    /\ (statusLog # <<>> /\ ~IsSuccess(LastStatus) /\ ~CallOpen) =>
         /\ outcome.kind = "thrown"
         /\ outcome.error = lastError
         /\ lastOutcome.kind = "response" => CarriesStatus(outcome.error, LastStatus)
         /\ lastOutcome.kind # "response" => outcome.error = lastOutcome.error
    /\ (pc = "thrown" /\ statusLog # <<>> /\ IsSuccess(LastStatus)) =>
         /\ call = "upload"
         /\ outcome.error.message = MsgBlobNamesEmpty
         /\ LET names == SafeReadJson(response).blob_names
            IN  ~names.isArray \/ names.items = <<>>

\* the second batch's call fails on a fatal status after the first succeeded
C10_Witness ==
    /\ pc = "thrown"
    /\ call = "upload"
    /\ batchIdx = 2
    /\ Len(blobNames) > 0
    /\ LastStatus = 404
    /\ outcome.error = lastError

\* the body of a response has no usable blob_names: it is not JSON, or
\* blob_names is absent, not a list, or an empty list
NamesUnusable(resp) ==
    \/ ~resp.json.parses
    \/ ~resp.json.value.blob_names.defined
    \/ ~resp.json.value.blob_names.isArray
    \/ resp.json.value.blob_names.items = <<>>
RECURSIVE Flatten(_)
Flatten(seqs) == IF seqs = <<>> THEN <<>> ELSE Head(seqs) \o Flatten(Tail(seqs))
ProtocolError == MkError("Error", MsgBlobNamesEmpty)
Retrievals == {i \in 1..Len(callLog) : callLog[i] = "retrieve"}
Uploads == {i \in 1..Len(callLog) : callLog[i] = "upload"}

\* C11: when a 2xx upload response has no usable blob_names, the search
\* throws the protocol error in the same step without another fetch; a
\* search that threw takes no further step, and at a search that threw the
\* protocol error the failing call ended on that 2xx response, no batch after
\* the failing one was uploaded, nothing is in flight and no retrieval call was
\* ever made.
C11_EmptyNamesStopSearch ==
    /\ [][(pc = "reading" /\ call = "upload" /\ NamesUnusable(response))
            => /\ pc' = "thrown"
               /\ outcome'.error = ProtocolError
               /\ totalAttempts' = totalAttempts
               /\ callLog' = callLog]_vars
    /\ [][pc # "thrown"]_vars
    /\ []((pc = "thrown" /\ outcome.error = ProtocolError)
            => /\ call = "upload"
               /\ IsSuccess(LastStatus)
               /\ NamesUnusable(lastOutcome.response)
               /\ Len(statusLog) = callAttempts
               /\ Cardinality(Uploads) = batchIdx
               /\ Retrievals = {}
               /\ inFlight = {})

\* the second of two batches, at its second attempt, is answered 200 with
\* blob_names that is not a list, and the search throws the protocol error
C11_Witness ==
    /\ pc = "thrown"
    /\ outcome.error = ProtocolError
    /\ Len(batches) = 2
    /\ batchIdx = 2
    /\ callAttempts = 2
    /\ lastOutcome.response.json.value.blob_names.defined
    /\ ~lastOutcome.response.json.value.blob_names.isArray

\* C12: within a search at most one request is in flight, and one is in flight exactly while
\* the search awaits a fetch; the logical calls are the uploads of the batches
\* in the builder's order, then at most one retrieval; an upload in progress
\* carries the batch of its index and every batch before it was answered with
\* names; a retrieval is begun only after every batch was; an attempt is
\* issued only when nothing is in flight, a first attempt of a later call only
\* after a 2xx response was read, and a retry only from the end of a sleep
\* with every earlier attempt of the call ended.
C12_OneRequestAtATime ==
    /\ [](/\ Cardinality(inFlight) <= 1
          /\ (pc = "fetching") <=> (inFlight = {request.requestId})
          /\ (pc # "fetching") <=> (inFlight = {})
          /\ \A i \in Uploads : i <= Len(batches)
          /\ \A i \in Retrievals : i = Len(batches) + 1 /\ i = Len(callLog)
          /\ (call = "upload" /\ pc \in {"fetching", "sleeping", "reading"})
               => /\ Len(callLog) = batchIdx
                  /\ request.blobs = batches[batchIdx]
                  /\ Len(namesLog) = batchIdx - 1
          /\ Retrievals # {} => Len(namesLog) = Len(batches))
    /\ [][totalAttempts' # totalAttempts
            => /\ inFlight = {}
               /\ IF callLog' = callLog
                  THEN pc = "sleeping" /\ Len(statusLog) = callAttempts
                  ELSE \/ pc = "collecting" /\ callLog = <<>>
                       \/ /\ pc = "reading"
                          /\ IsSuccess(response.status)
                          /\ Len(namesLog') = Len(callLog)]_vars

\* the retry of the second batch is in flight after its first attempt timed
\* out and the backoff elapsed
C12_Witness ==
    /\ pc = "fetching"
    /\ Len(batches) = 2
    /\ batchIdx = 2
    /\ callAttempts = 2
    /\ lastOutcome.kind = "timeout"
    /\ Cardinality(inFlight) = 1

\* C13: when the last batch is answered 2xx with a non-empty list of names,
\* the retrieval call begins; while and after a retrieval call runs, it is the
\* only one, every batch had exactly one upload call and gave a non-empty list
\* of names, and each of its attempts carries as added_blobs the names of all
\* batches pooled in batch order, an empty deleted_blobs and a null
\* checkpoint_id.
C13_RetrievalCarriesPooledNames ==
    /\ [](call = "retrieve"
            => /\ Cardinality(Retrievals) = 1
               /\ Cardinality(Uploads) = Len(batches)
               /\ Len(namesLog) = Len(batches)
               /\ \A i \in 1..Len(namesLog) : namesLog[i] # <<>>
               /\ request.kind = "retrieve"
               /\ request.url = baseUrl \o RetrievalPath
               /\ request.added_blobs = Flatten(namesLog)
               /\ request.deleted_blobs = <<>>
               /\ request.checkpoint_id = "null")
    /\ [][(/\ pc = "reading"
           /\ call = "upload"
           /\ batchIdx = Len(batches)
           /\ ~NamesUnusable(response))
            => /\ call' = "retrieve"
               /\ pc' = "fetching"
               /\ namesLog' = Append(namesLog, response.json.value.blob_names.items)]_vars

\* two batches answered with two names and one name: the retry of the
\* retrieval call carries the three names in batch order
C13_Witness ==
    /\ pc = "fetching"
    /\ call = "retrieve"
    /\ callAttempts = 2
    /\ Len(batches) = 2
    /\ namesLog = << <<"n2", "n3">>, <<"n1">> >>
    /\ request.added_blobs = <<"n2", "n3", "n1">>

\* C14: once the log directory was read and was missing or held no readable
\* .md file, the search has returned the fixed 'nothing to search' text for
\* its query, and it made no logical call, issued no fetch and drew no UUID.
C14_NoDocumentsNoNetwork ==
    logDirKind \in {"missing", "noReadableMd"}
        => /\ pc = "returned"
           /\ outcome = Returned(Trim(queryArg), TextNothingToSearch)
           /\ callLog = <<>>
           /\ totalAttempts = 0
           /\ inFlight = {}
           /\ uuidCount = 0
           /\ aceSessionId = 0
           /\ batches = <<>>

\* a directory that exists and holds entries, none of them a readable .md
\* file, was read and the search returned
C14_Witness ==
    /\ logDirKind = "noReadableMd"
    /\ readdirCalls = 1
    /\ pc = "returned"
    /\ outcome.value.results = TextNothingToSearch

ValidationError == MkError("Error", MsgQueryEmpty)
ConfigurationError == MkError("Error", MsgConfigMissing)

\* C16: a search whose query is empty or blank after trimming has thrown the
\* validation error, whatever the configuration is, without reading the log
\* directory and without any logical call or fetch; and every retrieval
\* request carries the trimmed form of a query that is not blank.
C16_BlankQueryRejectedFirst ==
    /\ (pc # "idle" /\ Trim(queryArg) = <<>>)
         => /\ pc = "thrown"
            /\ outcome.error = ValidationError
            /\ readdirCalls = 0
            /\ logDirKind = "unread"
            /\ callLog = <<>>
            /\ totalAttempts = 0
            /\ uuidCount = 0
    /\ request.kind = "retrieve"
         => /\ Trim(queryArg) # <<>>
            /\ request.information_request = Trim(queryArg)
            /\ request.information_request # queryArg

\* a query of one space, in a process without an API key, was rejected as
\* empty
C16_Witness ==
    /\ pc = "thrown"
    /\ queryArg = <<" ">>
    /\ env.apiKey = <<>>
    /\ outcome.error = ValidationError

(***************************************************************************)
(* src/index.js: searchLogs with its two modes, searchLogsWithAce without  *)
(* the retry executor, and searchLogsLocally                               *)
(***************************************************************************)
TextDirMissing == <<"u65E5", "u5FD7", "u76EE", "u5F55", "u4E0D", "u5B58", "u5728", "u3002">>
TextNoMatch == <<"u672A", "u627E", "u5230", "u5339", "u914D", "u7684", "u65E5", "u5FD7", "u8BB0", "u5F55", "u3002">>
MsgUploadFailed == <<"u4E0A", "u4F20", " ", "b", "l", "o", "b", "s", " ", "u5931", "u8D25">>
MsgCannotConnect == <<"u65E0", "u6CD5", "u8FDE", "u63A5", "u5230", " ", "A", "C", "E", " ", "A", "P", "I", ":", " ">>

\* String.prototype.toLowerCase over the letters of the inputs
LowerOf(c) == CASE c = "Q" -> "q" [] c = "F" -> "f" [] OTHER -> c
ToLowerCase(s) == [i \in 1..Len(s) |-> LowerOf(s[i])]

\* split(/\s+/).filter(k => k.length > 0): word is the word being read
RECURSIVE SplitWords(_, _)
SplitWords(s, word) ==
    IF s = <<>> THEN (IF word = <<>> THEN <<>> ELSE <<word>>)
    ELSE IF Head(s) \in WhiteSpace
    THEN (IF word = <<>> THEN <<>> ELSE <<word>>) \o SplitWords(Tail(s), <<>>)
    ELSE SplitWords(Tail(s), Append(word, Head(s)))

\* parseLogFileName(name)?.number || 0, for /^(\d{4})-(.*)\.md$/
LogNumber(name) ==
    IF /\ Len(name) >= 8
       /\ \A i \in 1..4 : name[i] \in DigitSet
       /\ name[5] = "-"
       /\ EndsWith(name, MdSuffix)
    THEN DigitsToNat(SubSeq(name, 1, 4))
    ELSE 0

\* the entries of the log directory with the text of each file
SrcLogFile(name, content) ==
    [name |-> name, isFile |-> TRUE, readable |-> TRUE, content |-> content]
SrcDirEntries ==
    { SrcLogFile(<<"0", "0", "0", "1", "-", "a", ".", "m", "d">>,
                 <<"#", " ", "F", "i", "x", " ", "Q">>),
      SrcLogFile(<<"0", "0", "0", "2", "-", "b", ".", "m", "d">>, <<"q", "\n", "x">>),
      SrcLogFile(<<"0", "0", "0", "3", "-", "c", ".", "m", "d">>, <<"x">>),
      SrcLogFile(<<"t", "o", "d", "o", ".", "t", "x", "t">>, <<"q">>),
      [name |-> <<"0", "0", "0", "4", "-", "d", ".", "m", "d">>, isFile |-> TRUE,
       readable |-> FALSE, content |-> <<>>] }
SrcDirectories ==
    { [exists |-> FALSE, entries |-> <<>>] }
    \cup
    { [exists |-> TRUE, entries |-> l] :
        l \in UNION { { e \in [1..n -> SrcDirEntries] :
                          \A i, j \in 1..n : e[i].name = e[j].name => i = j }
                      : n \in 0..MaxBlobs } }

\* calculateHash: the SHA-256 of path and content, kept as the pair
CalculateHash(filePath, content) == <<"sha256", filePath, content>>

\* collectLogBlobs of src/index.js
RECURSIVE SrcCollectLoop(_, _, _)
SrcCollectLoop(entries, i, blobs) ==
    IF i > Len(entries) THEN blobs
    ELSE LET entry == entries[i]
         IN  IF ~IsLogFile(entry) \/ ~entry.readable
             THEN SrcCollectLoop(entries, i + 1, blobs)
             ELSE SrcCollectLoop(entries, i + 1,
                      Append(blobs, [path |-> entry.name, content |-> entry.content,
                                     hash |-> CalculateHash(entry.name, entry.content)]))
SrcCollectLogBlobs(dir) ==
    IF ~dir.exists THEN <<>> ELSE SrcCollectLoop(dir.entries, 1, <<>>)

\* the scheme and slash handling at the head of searchLogsWithAce
SrcBaseUrl(u) ==
    LET schemed == IF StartsWith(u, HttpScheme)
                   THEN HttpsScheme \o SubSeq(u, Len(HttpScheme) + 1, Len(u))
                   ELSE IF ~StartsWith(u, HttpsScheme) THEN HttpsScheme \o u ELSE u
        RECURSIVE StripSlashes(_)
        StripSlashes(v) == IF v # <<>> /\ v[Len(v)] = "/"
                           THEN StripSlashes(SubSeq(v, 1, Len(v) - 1)) ELSE v
    IN  StripSlashes(schemed)

\* searchLogsLocally: the files that contain every keyword, in directory order
RECURSIVE LocalMatches(_, _, _)
LocalMatches(entries, i, keywords) ==
    IF i > Len(entries) THEN <<>>
    ELSE LET entry == entries[i]
             rest == LocalMatches(entries, i + 1, keywords)
         IN  IF ~IsLogFile(entry) \/ ~entry.readable THEN rest
             ELSE IF \A k \in 1..Len(keywords) :
                         Includes(ToLowerCase(entry.content), keywords[k])
             THEN <<[number |-> LogNumber(entry.name), fileName |-> entry.name]>> \o rest
             ELSE rest

\* matches.sort((a, b) => b.number - a.number): stable, highest number first
RECURSIVE SortByNumberDesc(_)
SortByNumberDesc(matches) ==
    IF matches = <<>> THEN <<>>
    ELSE LET m == Head(matches)
             sorted == SortByNumberDesc(Tail(matches))
             before == SelectSeq(sorted, LAMBDA x : x.number > m.number)
             after == SelectSeq(sorted, LAMBDA x : x.number <= m.number)
         IN  before \o <<m>> \o after

\* the result of searchLogsLocally; of the text built for the matches only the
\* file name of each heading is kept, in output order
LocalResults(dir, q) ==
    IF ~dir.exists THEN TextDirMissing
    ELSE LET keywords == SplitWords(ToLowerCase(q), <<>>)
             matches == SortByNumberDesc(LocalMatches(dir.entries, 1, keywords))
         IN  IF matches = <<>> THEN TextNoMatch
             ELSE [i \in 1..Len(matches) |-> matches[i].fileName]

\* what the actions of src/index.js leave alone
srcIdleVars == <<env, aceSessionId, uuidCount, batchIdx, blobNames, call, attempt,
                 lastError, waitMs, controller, callAttempts, statusLog, lastOutcome,
                 inFlight, namesLog, searches, sent, blobsArg, callArg, callResult,
                 cancelled, logDirName, disk, records, fsWrites>>

\* a fetch call of src/index.js: no retry, no timeout, no request headers of
\* the session
SrcFetch(kind, req) ==
    /\ request' = req
    /\ callLog' = Append(callLog, kind)
    /\ totalAttempts' = totalAttempts + 1

\* the catch block of searchLogsWithAce
SrcCatch(error) ==
    IF error.name = "TypeError" /\ Includes(error.message, FetchWord)
    THEN Finish(Thrown(MkError("Error", MsgCannotConnect \o baseUrl)))
    ELSE Finish(Thrown(error))

\* searchLogs({ query }) of src/index.js up to the await of fs.readdir
SrcSearchLogs(q) ==
    /\ pc = "idle"
    /\ queryArg' = q
    /\ IF IsBlankQuery(q)
       THEN /\ Finish(Thrown(MkError("Error", MsgQueryEmpty)))
            /\ UNCHANGED <<query, baseUrl, readdirCalls>>
       ELSE IF env.baseUrl # <<>> /\ env.apiKey # <<>>
       THEN /\ query' = Trim(q)
            /\ baseUrl' = SrcBaseUrl(env.baseUrl)
            /\ readdirCalls' = readdirCalls + 1
            /\ pc' = "srcCollecting"
            /\ UNCHANGED outcome
       ELSE /\ query' = Trim(q)
            /\ readdirCalls' = readdirCalls + 1
            /\ pc' = "locallyReading"
            /\ UNCHANGED <<baseUrl, outcome>>
    /\ UNCHANGED <<batches, request, response, callLog, totalAttempts, logDirKind>>
    /\ UNCHANGED srcIdleVars

\* collectLogBlobs returns; uploadBlobs runs up to its fetch
SrcCollectLogBlobsReturns(dir) ==
    /\ pc = "srcCollecting"
    /\ logDirKind' = DirKind(dir)
    /\ LET blobs == SrcCollectLogBlobs(dir)
       IN  IF Len(blobs) = 0
           THEN /\ Finish(Returned(query, TextNothingToSearch))
                /\ UNCHANGED <<batches, request, callLog, totalAttempts>>
           ELSE /\ batches' = <<blobs>>
                /\ SrcFetch("upload",
                       [NoRequest EXCEPT
                           !.url = baseUrl \o UploadPath, !.kind = "upload",
                           !.blobs = [i \in 1..Len(blobs) |->
                                         [path |-> blobs[i].path,
                                          content |-> blobs[i].content]]])
                /\ pc' = "srcUploading"
                /\ UNCHANGED outcome
    /\ UNCHANGED <<query, baseUrl, response, readdirCalls, queryArg>>
    /\ UNCHANGED srcIdleVars

\* fs.readdir of either mode fails with an error other than ENOENT
SrcReaddirThrows ==
    /\ pc \in {"srcCollecting", "locallyReading"}
    /\ Finish(Thrown(ReaddirError))
    /\ UNCHANGED <<query, baseUrl, batches, request, response, callLog, totalAttempts,
                   logDirKind, readdirCalls, queryArg>>
    /\ UNCHANGED srcIdleVars

\* the fetch of uploadBlobs resolves; on success the retrieval fetch is made
SrcUploadResolves(resp) ==
    /\ pc = "srcUploading"
    /\ response' = resp
    /\ IF ~IsOk(resp.status)
       THEN /\ SrcCatch(MkError("Error",
                     MsgUploadFailed \o <<" ", "(">> \o NumberToString(resp.status)
                         \o <<")", ":", " ">> \o resp.text))
            /\ UNCHANGED <<request, callLog, totalAttempts>>
       ELSE /\ SrcFetch("retrieve",
                   RetrievalRequest(baseUrl, query,
                       [i \in 1..Len(batches[1]) |-> batches[1][i].hash]))
            /\ pc' = "srcRetrieving"
            /\ UNCHANGED outcome
    /\ UNCHANGED <<query, baseUrl, batches, logDirKind, readdirCalls, queryArg>>
    /\ UNCHANGED srcIdleVars

\* the retrieval fetch resolves
SrcRetrievalResolves(resp) ==
    /\ pc = "srcRetrieving"
    /\ response' = resp
    /\ IF ~IsOk(resp.status)
       THEN SrcCatch(FailureError(resp))
       ELSE IF ~resp.json.parses
       THEN SrcCatch(MkError("SyntaxError", <<"J", "S", "O", "N">>))
       ELSE LET formatted == resp.json.value.formatted_retrieval
            IN  Finish(Returned(query, IF formatted.defined /\ formatted.text # <<>>
                                       THEN formatted.text ELSE TextNotFound))
    /\ UNCHANGED <<query, baseUrl, batches, request, callLog, totalAttempts,
                   logDirKind, readdirCalls, queryArg>>
    /\ UNCHANGED srcIdleVars

\* either fetch rejects
SrcFetchRejects(error) ==
    /\ pc \in {"srcUploading", "srcRetrieving"}
    /\ SrcCatch(error)
    /\ UNCHANGED <<query, baseUrl, batches, request, response, callLog, totalAttempts,
                   logDirKind, readdirCalls, queryArg>>
    /\ UNCHANGED srcIdleVars

\* searchLogsLocally after fs.readdir settled: it reads the files and returns
searchLogsLocally(dir) ==
    /\ pc = "locallyReading"
    /\ logDirKind' = DirKind(dir)
    /\ Finish(Returned(query, LocalResults(dir, query)))
    /\ UNCHANGED <<query, baseUrl, batches, request, response, callLog, totalAttempts,
                   readdirCalls, queryArg>>
    /\ UNCHANGED srcIdleVars

NextSrcIndexJs ==
    \/ \E q \in Queries : SrcSearchLogs(q)
    \/ \E dir \in SrcDirectories : SrcCollectLogBlobsReturns(dir)
    \/ SrcReaddirThrows
    \/ \E resp \in Responses : SrcUploadResolves(resp)
    \/ \E resp \in Responses : SrcRetrievalResolves(resp)
    \/ \E error \in Rejections : SrcFetchRejects(error)
    \/ \E dir \in SrcDirectories : searchLogsLocally(dir)

SpecSrcIndexJs == Init /\ [][NextSrcIndexJs]_vars

\* C15: a search with a query that is not blank, in a process without a base
\* URL or without an API key, has thrown the configuration error without
\* reading the log directory and without any fetch call.
C15_MissingConfigFailsFast ==
    (/\ pc # "idle"
     /\ Trim(queryArg) # <<>>
     /\ (env.baseUrl = <<>> \/ env.apiKey = <<>>))
        => /\ pc = "thrown"
           /\ outcome.error = ConfigurationError
           /\ readdirCalls = 0
           /\ logDirKind = "unread"
           /\ callLog = <<>>
           /\ totalAttempts = 0

(***************************************************************************)
(* Overlapping searches of one process: every search-logs call runs         *)
(* searchLogsWithAce on its own, sharing aceSessionId and randomUUID. Each  *)
(* search uploads one batch and then retrieves; of an attempt only the way  *)
(* it ends is kept.                                                         *)
(***************************************************************************)
Searches == {1, 2}
AttemptEnds == {"ok", "retryable", "fatal"}
IdleSearch == [pc |-> "idle", call |-> "none", attempt |-> 0, sessionId |-> 0,
               requestId |-> 0]

InitSessions ==
    /\ InitProcess
    /\ env.baseUrl # <<>>
    /\ env.apiKey # <<>>
    /\ searches = [s \in Searches |-> IdleSearch]
    /\ sent = <<>>
    /\ blobsArg = <<>>
    /\ NoApply
    /\ NoCancel
    /\ NoStore

\* what the overlapping searches leave alone
sessionIdleVars == <<env, pc, query, baseUrl, batches, batchIdx, blobNames, call,
                     attempt, lastError, waitMs, request, controller, response,
                     outcome, callAttempts, totalAttempts, statusLog, lastOutcome,
                     inFlight, callLog, namesLog, logDirKind, readdirCalls, queryArg,
                     blobsArg, callArg, callResult, cancelled, logDirName, disk,
                     records, fsWrites>>

\* postAceJson and the first pass of fetchWithRetry up to its fetch, in search s
SessionBeginCall(s, kind) ==
    LET drawn == NoSessionId(aceSessionId)
        session == IF drawn THEN uuidCount + 1 ELSE aceSessionId
        uuids == IF drawn THEN uuidCount + 1 ELSE uuidCount
    IN  /\ uuids + 1 <= MaxUuids
        /\ aceSessionId' = session
        /\ uuidCount' = uuids + 1
        /\ searches' = [searches EXCEPT ![s] =
                           [pc |-> "fetching", call |-> kind, attempt |-> InitialAttempt,
                            sessionId |-> session, requestId |-> uuids + 1]]
        /\ sent' = Append(sent, [sessionId |-> session, requestId |-> uuids + 1])

\* a search-logs call arrives and runs up to the fetch of its upload call
SearchStarts(s) ==
    /\ searches[s].pc = "idle"
    /\ SessionBeginCall(s, "upload")
    /\ UNCHANGED sessionIdleVars

\* the attempt of search s ends; a success of the upload call is followed by
\* the retrieval call, a failure that may be retried by the sleep
SearchAttemptEnds(s, end) ==
    /\ searches[s].pc = "fetching"
    /\ IF end = "ok"
       THEN IF searches[s].call = "upload"
            THEN SessionBeginCall(s, "retrieve")
            ELSE /\ searches' = [searches EXCEPT ![s].pc = "done"]
                 /\ UNCHANGED <<aceSessionId, uuidCount, sent>>
       ELSE /\ searches' = [searches EXCEPT ![s].pc =
                              IF end = "retryable" /\ MayRetry(searches[s].attempt)
                              THEN "sleeping" ELSE "done"]
            /\ UNCHANGED <<aceSessionId, uuidCount, sent>>
    /\ UNCHANGED sessionIdleVars

\* the sleep of search s ends: the next pass of the loop up to its fetch
SearchSleepElapses(s) ==
    /\ searches[s].pc = "sleeping"
    /\ uuidCount + 1 <= MaxUuids
    /\ LET id == RetryRequestId(searches[s].requestId, uuidCount + 1)
       IN  /\ searches' = [searches EXCEPT ![s].pc = "fetching",
                                           ![s].attempt = @ + 1,
                                           ![s].requestId = id]
           /\ sent' = Append(sent, [sessionId |-> searches[s].sessionId,
                                    requestId |-> id])
    /\ uuidCount' = uuidCount + 1
    /\ UNCHANGED aceSessionId
    /\ UNCHANGED sessionIdleVars

NextSessions ==
    \/ \E s \in Searches : SearchStarts(s)
    \/ \E s \in Searches, end \in AttemptEnds : SearchAttemptEnds(s, end)
    \/ \E s \in Searches : SearchSleepElapses(s)

SpecSessions == InitSessions /\ [][NextSessions]_vars

SentSessionIds == {sent[i].sessionId : i \in 1..Len(sent)}

\* C17: the session identifier, once drawn, is never drawn again or cleared;
\* it is drawn by the first call that sends a request; and every request sent
\* so far, by any attempt of any call of any of the overlapping searches,
\* carries that one identifier.
C17_OneSessionId ==
    /\ [][aceSessionId # 0 => aceSessionId' = aceSessionId]_vars
    /\ [](aceSessionId = 0 <=> sent = <<>>)
    /\ [](\A i \in 1..Len(sent) : sent[i].sessionId = aceSessionId)
    /\ [](\A s \in Searches :
            searches[s].pc \in {"fetching", "sleeping"}
                => searches[s].sessionId = aceSessionId)

\* both searches have a request under way at once, one of them a retry of the
\* retrieval call, and four or more requests were sent
C17_Witness ==
    /\ searches[1].pc = "fetching"
    /\ searches[1].call = "retrieve"
    /\ searches[1].attempt = 1
    /\ searches[2].pc = "fetching"
    /\ Len(sent) >= 4
    /\ Cardinality(SentSessionIds) = 1

\* C18: no two fetch calls carry the same x-request-id, whether they are the
\* retries of one call, the calls of one search or the calls of overlapping
\* searches, and no request id equals the session identifier.
C18_FreshRequestIds ==
    /\ \A i, j \in 1..Len(sent) : sent[i].requestId = sent[j].requestId => i = j
    /\ \A i \in 1..Len(sent) : sent[i].requestId # sent[i].sessionId

\* search 1 is at the third attempt of its upload call while search 2 has
\* gone on to its retrieval call
C18_Witness ==
    /\ searches[1].pc = "fetching"
    /\ searches[1].call = "upload"
    /\ searches[1].attempt = 2
    /\ searches[2].pc = "fetching"
    /\ searches[2].call = "retrieve"
    /\ Len(sent) = 5

(***************************************************************************)
(* buildBlobBatches on its own, over sequences of blocks whose sizes lie    *)
(* around the threshold                                                     *)
(***************************************************************************)
\* blocks of size 4, half the threshold, one more than half, the threshold,
\* and one more than the threshold
Blocks ==
    { [path |-> "a.md", pathLen |-> 4, contentLen |-> 0],
      [path |-> "b.md", pathLen |-> 4, contentLen |-> 524284],
      [path |-> "c.md", pathLen |-> 4, contentLen |-> 524285],
      [path |-> "d.md", pathLen |-> 4, contentLen |-> 1048572],
      [path |-> "e.md", pathLen |-> 4, contentLen |-> 1048573] }
BlockLists == UNION { [1..n -> Blocks] : n \in 0..MaxBlocks }

InitBatches ==
    /\ InitProcess
    /\ env.baseUrl = <<>>
    /\ env.apiKey = <<>>
    /\ searches = <<>>
    /\ sent = <<>>
    /\ blobsArg \in BlockLists
    /\ NoApply
    /\ NoCancel
    /\ NoStore

\* buildBlobBatches(blobsArg) is called and returns
BuildBlobBatchesReturns ==
    /\ pc = "idle"
    /\ batches' = buildBlobBatches(blobsArg)
    /\ pc' = "returned"
    /\ UNCHANGED <<env, aceSessionId, uuidCount, query, baseUrl, batchIdx, blobNames,
                   call, attempt, lastError, waitMs, request, controller, response,
                   outcome, callAttempts, totalAttempts, statusLog, lastOutcome,
                   inFlight, callLog, namesLog, logDirKind, readdirCalls, queryArg,
                   searches, sent, blobsArg, cancelled>>
    /\ UNCHANGED applyVars
    /\ UNCHANGED storeVars

NextBatches == BuildBlobBatchesReturns

SpecBatches == InitBatches /\ [][NextBatches]_vars

RECURSIVE CombinedSize(_)
CombinedSize(batch) ==
    IF batch = <<>> THEN 0
    ELSE Head(batch).contentLen + Head(batch).pathLen + CombinedSize(Tail(batch))

\* C19: of the batches buildBlobBatches returned, none is empty, and each has
\* a combined size of at most 1048576 or is one block on its own.
C19_BatchesWithinThreshold ==
    pc = "returned"
        => \A b \in 1..Len(batches) :
              /\ batches[b] # <<>>
              /\ \/ CombinedSize(batches[b]) <= 1048576
                 \/ Len(batches[b]) = 1 /\ CombinedSize(batches[b]) > 1048576

\* two blocks that fill a batch to the threshold exactly, followed by a block
\* larger than the threshold in a batch of its own
C19_Witness ==
    /\ pc = "returned"
    /\ Len(batches) = 2
    /\ Len(batches[1]) = 2
    /\ CombinedSize(batches[1]) = 1048576
    /\ Len(batches[2]) = 1
    /\ CombinedSize(batches[2]) = 1048577

\* C20: the batches buildBlobBatches returned, concatenated in order, are the
\* input sequence; an empty input gave no batch.
C20_BatchesPartitionInput ==
    pc = "returned"
        => /\ Flatten(batches) = blobsArg
           /\ blobsArg = <<>> => batches = <<>>

\* four blocks, two of them equal, were split into three batches
C20_Witness ==
    /\ pc = "returned"
    /\ Len(blobsArg) = 4
    /\ blobsArg[1] = blobsArg[4]
    /\ Len(batches) = 3
    /\ Flatten(batches) = blobsArg

\* a group of blocks that may form a batch: not empty, and of combined size at
\* most 1048576 or one block on its own
MayBeBatch(group) ==
    group # <<>> /\ (CombinedSize(group) <= 1048576 \/ Len(group) = 1)

\* the least number of contiguous groups, each of which may be a batch, that
\* the blocks can be cut into
RECURSIVE MinGroups(_)
MinGroups(blocks) ==
    IF blocks = <<>> THEN 0
    ELSE LET n == Len(blocks)
             counts == { 1 + MinGroups(SubSeq(blocks, k + 1, n)) :
                           k \in { j \in 1..n : MayBeBatch(SubSeq(blocks, 1, j)) } }
         IN  CHOOSE c \in counts : \A d \in counts : c <= d

\* C21: buildBlobBatches returned as few batches as any cut of its input into
\* contiguous groups, each within the threshold or a single block, has groups.
C21_FewestBatches ==
    pc = "returned" => Len(batches) = MinGroups(blobsArg)

\* four blocks, any three of which in a row exceed the threshold, came back
\* as two batches of two blocks
C21_Witness ==
    /\ pc = "returned"
    /\ Len(blobsArg) = 4
    /\ Len(batches) = 2
    /\ Len(batches[1]) = 2
    /\ Len(batches[2]) = 2
    /\ CombinedSize(SubSeq(blobsArg, 1, 3)) > 1048576
    /\ CombinedSize(SubSeq(blobsArg, 2, 4)) > 1048576
    /\ MinGroups(blobsArg) = 2

(***************************************************************************)
(* splitLogContent on its own, over short texts and small line limits       *)
(***************************************************************************)
\* String.prototype.split(sep) for a one-character separator: piece is the
\* piece being read
RECURSIVE SplitOn(_, _, _)
SplitOn(s, sep, piece) ==
    IF s = <<>> THEN <<piece>>
    ELSE IF Head(s) = sep THEN <<piece>> \o SplitOn(Tail(s), sep, <<>>)
    ELSE SplitOn(Tail(s), sep, Append(piece, Head(s)))

\* Array.prototype.join(sep)
RECURSIVE JoinWith(_, _)
JoinWith(pieces, sep) ==
    IF pieces = <<>> THEN <<>>
    ELSE IF Len(pieces) = 1 THEN pieces[1]
    ELSE pieces[1] \o <<sep>> \o JoinWith(Tail(pieces), sep)

\* sensitivity variant of CeilDiv: rounded down
FloorDiv(a, b) == a \div b
\* Math.ceil(a / b) for positive integers
CeilDiv(a, b) == (a + b - 1) \div b

\* sensitivity variant of ChunkPath: chunks counted from 0
ChunkPathFromZero(fileName, i, totalChunks) ==
    fileName \o <<"#", "c", "h", "u", "n", "k">> \o NumberToString(i)
        \o <<"o", "f">> \o NumberToString(totalChunks)
\* `${fileName}#chunk${i + 1}of${totalChunks}` for the loop index i
ChunkPath(fileName, i, totalChunks) ==
    fileName \o <<"#", "c", "h", "u", "n", "k">> \o NumberToString(i + 1)
        \o <<"o", "f">> \o NumberToString(totalChunks)

\* Math.min
Min(a, b) == IF a < b THEN a ELSE b

\* splitLogContent, with ACE_MAX_LINES_PER_BLOB as maxLines
splitLogContent(fileName, content, maxLines) ==
    LET lines == SplitOn(content, "\n", <<>>)
    IN  IF Len(lines) <= maxLines
        THEN <<[path |-> fileName, content |-> content]>>
        ELSE LET totalChunks == CeilDiv(Len(lines), maxLines)
             IN  [k \in 1..totalChunks |->
                    LET i == k - 1
                        start == i * maxLines
                        end == Min(start + maxLines, Len(lines))
                    IN  [path |-> ChunkPath(fileName, i, totalChunks),
                         content |-> JoinWith(SubSeq(lines, start + 1, end), "\n")]]

\* the texts: every string of up to MaxChars characters over two letters and
\* the newline; the limits: what getPositiveInt can make of the setting
Texts == UNION { [1..n -> {"a", "b", "\n"}] : n \in 0..MaxChars }
LineLimits == 1..MaxLineLimit
LogFileName == <<"0", "0", "0", "1", "-", "a", ".", "m", "d">>

InitSegments ==
    /\ InitProcess
    /\ env.baseUrl = <<>>
    /\ env.apiKey = <<>>
    /\ searches = <<>>
    /\ sent = <<>>
    /\ blobsArg = <<>>
    /\ callArg \in [fileName : {LogFileName}, content : Texts, maxLines : LineLimits]
    /\ callResult = <<>>
    /\ NoCancel
    /\ NoStore

\* what a function applied on its own leaves alone
applyIdleVars == <<env, aceSessionId, uuidCount, query, baseUrl, batches, batchIdx,
                   blobNames, call, attempt, lastError, waitMs, request, controller,
                   response, outcome, callAttempts, totalAttempts, statusLog,
                   lastOutcome, inFlight, callLog, namesLog, logDirKind, readdirCalls,
                   queryArg, searches, sent, blobsArg, cancelled, logDirName, disk,
                   records, fsWrites>>

\* splitLogContent(fileName, content) is called and returns
SplitLogContentReturns ==
    /\ pc = "idle"
    /\ callResult' = splitLogContent(callArg.fileName, callArg.content, callArg.maxLines)
    /\ pc' = "returned"
    /\ UNCHANGED callArg
    /\ UNCHANGED applyIdleVars

NextSegments == SplitLogContentReturns

SpecSegments == InitSegments /\ [][NextSegments]_vars

\* the number of newline-separated lines of a text: one more than its newlines
LineCount(text) == 1 + Cardinality({i \in 1..Len(text) : text[i] = "\n"})

\* C22: splitLogContent returned one block with the file name and the
\* unchanged text when the text has at most M lines, and otherwise the least
\* number n of blocks with n * M >= L; no block has more than M lines; the
\* empty text gave one block with empty content.
C22_BlockCount ==
    pc = "returned"
        => LET L == LineCount(callArg.content)
               M == callArg.maxLines
               n == Len(callResult)
           IN  /\ L <= M => callResult = <<[path |-> callArg.fileName,
                                            content |-> callArg.content]>>
               /\ L > M => n * M >= L /\ (n - 1) * M < L
               /\ \A i \in 1..n : LineCount(callResult[i].content) <= M
               /\ callArg.content = <<>>
                    => callResult = <<[path |-> callArg.fileName, content |-> <<>>]>>

\* a text of five lines under a limit of two lines came back as three blocks
C22_Witness ==
    /\ pc = "returned"
    /\ LineCount(callArg.content) = 5
    /\ callArg.maxLines = 2
    /\ Len(callResult) = 3

RECURSIVE Rejoined(_)
Rejoined(blocks) ==
    IF Len(blocks) = 1 THEN blocks[1].content
    ELSE blocks[1].content \o <<"\n">> \o Rejoined(Tail(blocks))

\* C23: the contents of the blocks splitLogContent returned, put together in
\* order with a newline between them, are the text; and when there are n > 1
\* blocks the i-th one is named '{fileName}#chunk{i}of{n}'.
C23_BlocksRebuildText ==
    pc = "returned"
        => LET n == Len(callResult)
           IN  /\ n >= 1
               /\ Rejoined(callResult) = callArg.content
               /\ n > 1 => \A i \in 1..n :
                     callResult[i].path =
                         callArg.fileName \o <<"#", "c", "h", "u", "n", "k">>
                             \o <<Digits[i + 1]>> \o <<"o", "f">> \o <<Digits[n + 1]>>

\* the text 'a', newline, 'b', newline, 'a' under a limit of two lines came
\* back as the blocks 'a' newline 'b', named chunk1of2, and 'a', named chunk2of2
C23_Witness ==
    /\ pc = "returned"
    /\ callArg.content = <<"a", "\n", "b", "\n", "a">>
    /\ callArg.maxLines = 2
    /\ Len(callResult) = 2
    /\ callResult[1].content = <<"a", "\n", "b">>
    /\ callResult[2].content = <<"a">>
    /\ callResult[2].path = callArg.fileName \o <<"#", "c", "h", "u", "n", "k", "2", "o", "f", "2">>

\* the formatted_retrieval text of a response body, empty when the body is not
\* JSON or has no such field
FormattedField(resp) ==
    IF resp.json.parses /\ resp.json.value.formatted_retrieval.defined
    THEN resp.json.value.formatted_retrieval.text
    ELSE <<>>
RetrievalReturned == pc = "returned" /\ call = "retrieve"

\* C24 as stated: a search that returned after its retrieval call returned
\* the placeholder when the formatted_retrieval field of the body is absent or
\* empty, and the text of the field itself when it is not empty.
C24_FieldReturnedAsIs ==
    RetrievalReturned
        => outcome.value.results =
               IF FormattedField(response) = <<>> THEN TextNotFound
               ELSE FormattedField(response)

\* C24 amended: a retrieval response that was read makes the search return,
\* never throw; it returned the placeholder when the field is absent, empty
\* or white space only, and otherwise the text of the field without the
\* white space around it.
C24_FieldReturnedTrimmed ==
    /\ [][(pc = "reading" /\ call = "retrieve") => pc' = "returned"]_vars
    /\ [](RetrievalReturned
            => LET text == FormattedField(response)
                   blank == \A i \in 1..Len(text) : text[i] \in WhiteSpace
               IN  /\ blank => outcome.value.results = TextNotFound
                   /\ ~blank =>
                        \E i, j \in 1..Len(text) :
                           /\ i <= j
                           /\ outcome.value.results = SubSeq(text, i, j)
                           /\ text[i] \notin WhiteSpace
                           /\ text[j] \notin WhiteSpace
                           /\ \A k \in 1..Len(text) :
                                 (k < i \/ k > j) => text[k] \in WhiteSpace)

\* the body's field is 'hit' followed by a space and the search returned 'hit'
C24_Witness ==
    /\ RetrievalReturned
    /\ FormattedField(response) = <<"h", "i", "t", " ">>
    /\ outcome.value.results = <<"h", "i", "t">>

(***************************************************************************)
(* normalizeAceBaseUrl on its own, over base URLs put together from a       *)
(* scheme, a host part and slashes, with white space around them            *)
(***************************************************************************)
UrlSchemes == { <<>>, HttpScheme, HttpsScheme, <<"H", "T", "T", "P", ":", "/", "/">> }
UrlHosts == { <<>>, <<"a", ".", "i", "o">>, <<"a", ".", "i", "o", "/", "v", "1">> }
UrlSlashes == { <<>>, <<"/">>, <<"/", "/">> }
UrlSpaces == { <<>>, <<" ">> }
UrlArgs ==
    { lead \o scheme \o host \o slashes \o trail :
        lead \in UrlSpaces, scheme \in UrlSchemes, host \in UrlHosts,
        slashes \in UrlSlashes, trail \in UrlSpaces }

InitBaseUrl ==
    /\ InitProcess
    /\ env.baseUrl = <<>>
    /\ env.apiKey = <<>>
    /\ searches = <<>>
    /\ sent = <<>>
    /\ blobsArg = <<>>
    /\ callArg \in UrlArgs
    /\ callResult = <<>>
    /\ NoCancel
    /\ NoStore

\* normalizeAceBaseUrl(baseUrl) is called and returns or throws
NormalizeAceBaseUrlReturns ==
    /\ pc = "idle"
    /\ IF Trim(callArg) = <<>>
       THEN /\ callResult' = MsgBaseUrlEmpty
            /\ pc' = "thrown"
       ELSE /\ callResult' = NormalizeAceBaseUrl(callArg)
            /\ pc' = "returned"
    /\ UNCHANGED callArg
    /\ UNCHANGED applyIdleVars

NextBaseUrl == NormalizeAceBaseUrlReturns

SpecBaseUrl == InitBaseUrl /\ [][NextBaseUrl]_vars

\* C25: for every base URL that is not blank, normalizeAceBaseUrl returned a
\* URL that begins with 'https://' and does not end with a slash, and that it
\* maps to itself.
C25_HttpsNoTrailingSlash ==
    pc = "returned"
        => /\ Len(callResult) >= 8
           /\ SubSeq(callResult, 1, 8) = <<"h", "t", "t", "p", "s", ":", "/", "/">>
           /\ callResult[Len(callResult)] # "/"
           /\ NormalizeAceBaseUrl(callResult) = callResult



(***************************************************************************)
(* The log store: the functions recordAgentLog is made of                  *)
(***************************************************************************)
DEFAULT_LOG_DIR == <<"A", "g", "e", "n", "t", "L", "o", "g", "s">>
\* process.cwd(), as the segments of an absolute POSIX path
ROOT_DIR == << <<"w">> >>
MsgTitleEmpty == <<"t", "i", "t", "l", "e", "u4E0Du80FDu4E3Au7A7A">>
MsgLogDirOutside == <<"u65E5u5FD7u76EEu5F55u5FC5u987Bu4F4Du4E8Eu5F53u524Du5DE5u4F5Cu76EEu5F55u4E0B">>
MsgNumberLimit == <<"u65E5u5FD7u7F16u53F7u5DF2u8FBEu5230u4E0Au9650", " ", "9", "9", "9", "9">>
MsgIsDirectory == <<"E", "I", "S", "D", "I", "R">>
UntitledWord == <<"u", "n", "t", "i", "t", "l", "e", "d">>
UnnamedRecord == <<"u672Au547Du540Du8BB0u5F55">>

\* String.prototype.replace(/^X+/, '') for the one-character class X
RECURSIVE StripLeading(_, _)
StripLeading(s, class) ==
    IF s # <<>> /\ Head(s) \in class THEN StripLeading(Tail(s), class) ELSE s

\* String.prototype.replace(/X+$/, '') for the character class X
RECURSIVE StripTrailing(_, _)
StripTrailing(s, class) ==
    IF s # <<>> /\ s[Len(s)] \in class
    THEN StripTrailing(SubSeq(s, 1, Len(s) - 1), class) ELSE s

\* normalizeLogDirName(name), for a string name
normalizeLogDirName(name) ==
    LET trimmed == Trim(name)
    IN  IF trimmed = <<>> THEN DEFAULT_LOG_DIR
        ELSE IF StartsWith(trimmed, <<".", "/">>)
        THEN StripLeading(Tail(trimmed), {"/"})
        ELSE trimmed

\* the segments of a POSIX path after '.', '..' and empty segments are
\* resolved, on top of the segments in done
RECURSIVE NormalizeSegments(_, _)
NormalizeSegments(segments, done) ==
    IF segments = <<>> THEN done
    ELSE LET seg == Head(segments)
         IN  IF seg = <<>> \/ seg = <<".">>
             THEN NormalizeSegments(Tail(segments), done)
             ELSE IF seg = <<".", ".">>
             THEN NormalizeSegments(Tail(segments),
                                    IF done = <<>> THEN <<>>
                                    ELSE SubSeq(done, 1, Len(done) - 1))
             ELSE NormalizeSegments(Tail(segments), Append(done, seg))

\* path.resolve(from, to) on POSIX, from being absolute
PathResolve(from, to) ==
    IF StartsWith(to, <<"/">>)
    THEN NormalizeSegments(SplitOn(to, "/", <<>>), <<>>)
    ELSE NormalizeSegments(SplitOn(to, "/", <<>>), from)

\* the number of leading segments two paths share
RECURSIVE CommonPrefixLen(_, _)
CommonPrefixLen(a, b) ==
    IF a # <<>> /\ b # <<>> /\ Head(a) = Head(b)
    THEN 1 + CommonPrefixLen(Tail(a), Tail(b)) ELSE 0

\* path.relative(from, to) on POSIX for two resolved absolute paths
PathRelative(from, to) ==
    LET k == CommonPrefixLen(from, to)
        ups == [i \in 1..(Len(from) - k) |-> <<".", ".">>]
    IN  JoinWith(ups \o SubSeq(to, k + 1, Len(to)), "/")

\* LOG_DIR_PATH for a LOG_DIR_NAME
LogDirPath(name) == PathResolve(ROOT_DIR, name)

\* sensitivity variant of LogDirRejected: only an absolute result is refused
LogDirRejectedAbsoluteOnly(relative) == StartsWith(relative, <<"/">>)
\* the condition under which ensureLogDirInsideRoot throws
LogDirRejected(relative) ==
    StartsWith(relative, <<".", ".">>) \/ StartsWith(relative, <<"/">>)

\* toGitignoreEntry(logDirName)
toGitignoreEntry(name) ==
    LET slashed == [i \in 1..Len(name) |-> IF name[i] = "\\" THEN "/" ELSE name[i]]
        normalized == StripLeading(slashed, {"/"})
    IN  IF EndsWith(normalized, <<"/">>) THEN normalized
        ELSE Append(normalized, "/")

\* the class [<>:"/\\|?*\x00-\x1F] of sanitizeTitle
UnsafeChars == {"<", ">", ":", "\"", "/", "\\", "|", "?", "*", "\t", "\n", "\r"}

\* String.prototype.replace(/X+/g, '-') for the character class X
RECURSIVE ReplaceRuns(_, _)
ReplaceRuns(s, class) ==
    IF s = <<>> THEN <<>>
    ELSE IF Head(s) \in class
    THEN <<"-">> \o ReplaceRuns(StripLeading(s, class), class)
    ELSE <<Head(s)>> \o ReplaceRuns(Tail(s), class)

\* sanitizeTitle(rawTitle)
sanitizeTitle(rawTitle) ==
    LET trimmed == Trim(rawTitle)
        safe == [i \in 1..Len(trimmed) |->
                    IF trimmed[i] \in UnsafeChars THEN "-" ELSE trimmed[i]]
        spaced == ReplaceRuns(safe, WhiteSpace)
        dashed == ReplaceRuns(spaced, {"-"})
        ended == StripTrailing(dashed, {".", " "})
        cleaned == StripLeading(ended, {"-"})
    IN  IF cleaned = <<>> \/ cleaned = <<".">> \/ cleaned = <<".", ".">>
        THEN UntitledWord ELSE cleaned

\* buildLogContent(title, content)
buildLogContent(title, content) ==
    LET safeTitle == IF Trim(title) = <<>> THEN UnnamedRecord ELSE Trim(title)
        body == TrimEnd(content)
    IN  IF body = <<>> THEN <<"#", " ">> \o safeTitle \o <<"\n">>
        ELSE <<"#", " ">> \o safeTitle \o <<"\n", "\n">> \o body \o <<"\n">>

\* String(n).padStart(4, '0')
RECURSIVE PadStart4(_)
PadStart4(text) == IF Len(text) >= 4 THEN text ELSE PadStart4(<<"0">> \o text)

\* existing.split(/\r?\n/): the pieces between line feeds, a carriage return
\* before a line feed belonging to the separator
SplitLines(existing) ==
    LET pieces == SplitOn(existing, "\n", <<>>)
    IN  [i \in 1..Len(pieces) |->
            IF i < Len(pieces) /\ EndsWith(pieces[i], <<"\r">>)
            THEN SubSeq(pieces[i], 1, Len(pieces[i]) - 1)
            ELSE pieces[i]]

\* sensitivity variant of HasEntry: the entry is never found
HasEntryNever(existing, entry) == FALSE
\* hasEntry of ensureGitignoreEntry
HasEntry(existing, entry) ==
    LET lines == SplitLines(existing)
    IN  \E i \in 1..Len(lines) :
            \/ Trim(lines[i]) = entry
            \/ Trim(lines[i]) = (IF EndsWith(entry, <<"/">>)
                                 THEN SubSeq(entry, 1, Len(entry) - 1) ELSE entry)

\* nextContent of ensureGitignoreEntry
NextGitignoreContent(existing, entry) ==
    LET prefix == IF existing # <<>> /\ ~EndsWith(existing, <<"\n">>)
                  THEN <<"\n">> ELSE <<>>
    IN  existing \o prefix \o entry \o <<"\n">>

\* entry.name.match(/^(\d{4})-.*\.md$/) of getNextLogNumber
MatchesNumbered(name) ==
    /\ Len(name) >= 8
    /\ \A i \in 1..4 : name[i] \in DigitSet
    /\ name[5] = "-"
    /\ EndsWith(name, MdSuffix)

\* maxNumber of getNextLogNumber after its loop over the entries
RECURSIVE MaxNumber(_, _)
MaxNumber(entries, maxNumber) ==
    IF entries = {} THEN maxNumber
    ELSE LET entry == CHOOSE x \in entries : TRUE
             parsed == IF entry.isFile /\ MatchesNumbered(entry.name)
                       THEN DigitsToNat(SubSeq(entry.name, 1, 4)) ELSE 0
         IN  MaxNumber(entries \ {entry},
                       IF parsed > maxNumber THEN parsed ELSE maxNumber)

\* sensitivity variant of NextLogNumber: no upper limit
NextLogNumberUnlimited(dirExists, entries) ==
    IF ~dirExists THEN 1 ELSE MaxNumber(entries, 0) + 1
\* sensitivity variant of NextLogNumber: one more than the number of entries
NextLogNumberByCount(dirExists, entries) == Cardinality(entries) + 1
\* what getNextLogNumber returns (0 stands for its 'limit reached' error)
NextLogNumber(dirExists, entries) ==
    IF ~dirExists THEN 1
    ELSE IF MaxNumber(entries, 0) >= 9999 THEN 0
    ELSE MaxNumber(entries, 0) + 1



(***************************************************************************)
(* The log store: recordAgentLog, one step per await                       *)
(***************************************************************************)
MaxRecords == 2

\* values of AGENT_LOG_DIR; the empty one stands for an unset variable
LogDirEnvs ==
    { <<>>,
      <<" ", ".", "/", "l", "o", "g", "s", " ">>,
      <<"/", "w", "/", "i", "n">>,
      <<".", ".", "/", "o", "u", "t">>,
      <<"/", "e", "t", "c">>,
      <<"a", "/", ".", ".", "/", ".", ".", "/", "b">> }
\* LOG_DIR_NAME
LogDirNames == { normalizeLogDirName(v) : v \in LogDirEnvs }

DiskFile(name, content) == [name |-> name, isFile |-> TRUE, content |-> content]
DiskDir(name) == [name |-> name, isFile |-> FALSE, content |-> <<>>]
\* what the log directory holds before the first call
InitialLogDirs ==
    { [dirExists |-> FALSE, files |-> {}],
      [dirExists |-> TRUE, files |-> {}],
      [dirExists |-> TRUE,
       files |-> { DiskFile(<<"0", "0", "0", "1", "-", "a", ".", "m", "d">>, <<"#", " ", "a", "\n">>) }],
      [dirExists |-> TRUE,
       files |-> { DiskFile(<<"0", "0", "0", "1", "-", "b", ".", "m", "d">>, <<"#", " ", "b", "\n">>),
                   DiskDir(<<"0", "0", "0", "2", "-", "a", ".", "m", "d">>) }],
      [dirExists |-> TRUE,
       files |-> { DiskFile(<<"0", "0", "0", "7", "-", "a", ".", "m", "d">>, <<"#", " ", "a", "\n">>),
                   DiskFile(<<"n", "o", "t", "e", "s", ".", "m", "d">>, <<"n">>),
                   DiskFile(<<"0", "0", "0", "1", "2", "-", "a", ".", "m", "d">>, <<"n">>) }],
      [dirExists |-> TRUE,
       files |-> { DiskDir(<<"0", "0", "0", "1", "-", "o", "l", "d", ".", "m", "d">>) }],
      [dirExists |-> TRUE,
       files |-> { DiskFile(<<"9", "9", "9", "8", "-", "y", ".", "m", "d">>, <<"#", " ", "y", "\n">>) }],
      [dirExists |-> TRUE,
       files |-> { DiskFile(<<"9", "9", "9", "9", "-", "z", ".", "m", "d">>, <<"#", " ", "z", "\n">>) }] }
\* what .gitignore holds before the first call
InitialGitignores ==
    { [exists |-> FALSE, text |-> <<>>],
      [exists |-> TRUE, text |-> <<"n", "o", "d", "e">>],
      [exists |-> TRUE, text |-> <<"A", "g", "e", "n", "t", "L", "o", "g", "s", "/", "\n">>],
      [exists |-> TRUE,
       text |-> <<"x", "\r", "\n", " ", "A", "g", "e", "n", "t", "L", "o", "g", "s", " ", "\r", "\n", "l", "o", "g", "s">>] }

\* arguments of the record-agent-log tool
Titles == { <<"a">>, <<"-", " ", "a", ".">>, <<" ">> }
Contents == { <<"x">>, <<"y", " ", "\n">> }

NoNumber == 0
Record(stage, title, content) ==
    [pc |-> stage, title |-> title, content |-> content, nextContent |-> <<>>,
     number |-> NoNumber, fileName |-> <<>>, error |-> <<>>]

InitStore ==
    /\ InitProcess
    /\ env.baseUrl = <<>>
    /\ env.apiKey = <<>>
    /\ searches = <<>>
    /\ sent = <<>>
    /\ blobsArg = <<>>
    /\ NoApply
    /\ NoCancel
    /\ logDirName \in LogDirNames
    /\ \E dir \in InitialLogDirs, gitignore \in InitialGitignores :
          disk = [dirExists |-> dir.dirExists, files |-> dir.files,
                  gitignore |-> gitignore]
    /\ records = <<>>
    /\ fsWrites = 0

storeIdleVars == <<env, aceSessionId, uuidCount, pc, query, baseUrl, batches, batchIdx,
                   blobNames, call, attempt, lastError, waitMs, request, controller,
                   response, outcome, callAttempts, totalAttempts, statusLog,
                   lastOutcome, inFlight, callLog, namesLog, logDirKind, readdirCalls,
                   queryArg, searches, sent, blobsArg, callArg, callResult, cancelled,
                   logDirName>>

InProgress(r) == r.pc \notin {"returned", "thrown"}
Threw(r, message) == [r EXCEPT !.pc = "thrown", !.error = message]

\* recordAgentLog is called and runs up to its first await (fs.mkdir)
RecordAgentLog(title, content) ==
    /\ Len(records) < MaxRecords
    /\ LET r == Record("mkdir", title, content)
       IN  records' = Append(records,
              IF Trim(title) = <<>> THEN Threw(r, MsgTitleEmpty)
              ELSE IF LogDirRejected(PathRelative(ROOT_DIR, LogDirPath(logDirName)))
              THEN Threw(r, MsgLogDirOutside)
              ELSE r)
    /\ UNCHANGED <<disk, fsWrites>>
    /\ UNCHANGED storeIdleVars

\* fs.mkdir(LOG_DIR_PATH, {recursive: true}) settles; fs.readFile of
\* .gitignore is issued
MkdirSettles(i) ==
    /\ records[i].pc = "mkdir"
    /\ disk' = [disk EXCEPT !.dirExists = TRUE]
    /\ fsWrites' = fsWrites + 1
    /\ records' = [records EXCEPT ![i].pc = "readFile"]
    /\ UNCHANGED storeIdleVars

\* fs.readFile(GITIGNORE_PATH) settles; ensureGitignoreEntry returns when the
\* entry is there and fs.readdir is issued, or fs.writeFile is issued
GitignoreRead(i) ==
    /\ records[i].pc = "readFile"
    /\ LET entry == toGitignoreEntry(logDirName)
           existing == IF disk.gitignore.exists THEN disk.gitignore.text ELSE <<>>
       IN  records' =
              IF HasEntry(existing, entry)
              THEN [records EXCEPT ![i].pc = "readdir"]
              ELSE [records EXCEPT ![i].pc = "writeGitignore",
                                   ![i].nextContent = NextGitignoreContent(existing, entry)]
    /\ UNCHANGED <<disk, fsWrites>>
    /\ UNCHANGED storeIdleVars

\* fs.writeFile(GITIGNORE_PATH, nextContent) settles; fs.readdir is issued
GitignoreWritten(i) ==
    /\ records[i].pc = "writeGitignore"
    /\ disk' = [disk EXCEPT !.gitignore = [exists |-> TRUE, text |-> records[i].nextContent]]
    /\ fsWrites' = fsWrites + 1
    /\ records' = [records EXCEPT ![i].pc = "readdir"]
    /\ UNCHANGED storeIdleVars

\* fs.readdir(LOG_DIR_PATH) settles; getNextLogNumber returns or throws, the
\* file name is built and fs.writeFile is issued
ReaddirSettles(i) ==
    /\ records[i].pc = "readdir"
    /\ LET nextNumber == NextLogNumber(disk.dirExists, disk.files)
           numberText == PadStart4(NumberToString(nextNumber))
           fileTitle == sanitizeTitle(Trim(records[i].title))
       IN  records' =
              IF nextNumber = 0
              THEN [records EXCEPT ![i] = Threw(@, MsgNumberLimit)]
              ELSE [records EXCEPT ![i].pc = "writeFile",
                                   ![i].number = nextNumber,
                                   ![i].fileName = numberText \o <<"-">> \o fileTitle \o MdSuffix]
    /\ UNCHANGED <<disk, fsWrites>>
    /\ UNCHANGED storeIdleVars

\* fs.writeFile(filePath, fileContent) settles and recordAgentLog returns;
\* writing onto a directory fails
LogWritten(i) ==
    /\ records[i].pc = "writeFile"
    /\ LET r == records[i]
           fileContent == buildLogContent(Trim(r.title), r.content)
       IN  IF \E f \in disk.files : f.name = r.fileName /\ ~f.isFile
           THEN /\ records' = [records EXCEPT ![i] = Threw(@, MsgIsDirectory)]
                /\ UNCHANGED <<disk, fsWrites>>
           ELSE /\ disk' = [disk EXCEPT !.files =
                              { f \in @ : f.name # r.fileName }
                                  \cup { DiskFile(r.fileName, fileContent) }]
                /\ fsWrites' = fsWrites + 1
                /\ records' = [records EXCEPT ![i].pc = "returned"]
    /\ UNCHANGED storeIdleVars

\* the tool called again only after the call before it has settled
RecordAgentLogAlone ==
    /\ \A i \in 1..Len(records) : ~InProgress(records[i])
    /\ \E title \in Titles, content \in Contents : RecordAgentLog(title, content)

NextStore ==
    \/ RecordAgentLogAlone
    \/ \E i \in 1..Len(records) : MkdirSettles(i)
    \/ \E i \in 1..Len(records) : GitignoreRead(i)
    \/ \E i \in 1..Len(records) : GitignoreWritten(i)
    \/ \E i \in 1..Len(records) : ReaddirSettles(i)
    \/ \E i \in 1..Len(records) : LogWritten(i)

SpecStore == InitStore /\ [][NextStore]_vars

\* the tool called while earlier calls are still under way
RecordAgentLogAnyTime ==
    \E title \in Titles, content \in Contents : RecordAgentLog(title, content)

NextStoreInterleaved ==
    \/ RecordAgentLogAnyTime
    \/ \E i \in 1..Len(records) : MkdirSettles(i)
    \/ \E i \in 1..Len(records) : GitignoreRead(i)
    \/ \E i \in 1..Len(records) : GitignoreWritten(i)
    \/ \E i \in 1..Len(records) : ReaddirSettles(i)
    \/ \E i \in 1..Len(records) : LogWritten(i)

SpecStoreInterleaved == InitStore /\ [][NextStoreInterleaved]_vars



(***************************************************************************)
(* Properties of the log store                                             *)
(***************************************************************************)
\* the largest number among the files named 'NNNN-*.md', 0 without one
LargestNumber(files) ==
    LET numbers == { LogNumber(f.name) : f \in { g \in files : g.isFile } } \cup {0}
    IN  CHOOSE n \in numbers : \A m \in numbers : m <= n

HasReturned(i) == records[i].pc = "returned"

\* the call i writes its log file in this step and returns
Returns(i) ==
    /\ i \in 1..Len(records)
    /\ records[i].pc = "writeFile"
    /\ records'[i].pc = "returned"

\* C26: a record-agent-log call that runs with no other record call in
\* progress is given the number 1 + the largest number among the existing
\* 'NNNN-*.md' files (1 when there is none or the directory is missing); over
\* a sequence of such calls the numbers strictly increase, no call writes
\* onto an existing file and every log written stays as it was written.
C26_NextNumberIncreases ==
    /\ [][\A i \in 1..MaxRecords :
            Returns(i) =>
                /\ records'[i].number = LargestNumber(disk.files) + 1
                /\ \A f \in disk.files : f.name # records'[i].fileName
                /\ disk.files \subseteq disk'.files]_vars
    /\ [](\A i, j \in 1..Len(records) :
            (i < j /\ HasReturned(i) /\ HasReturned(j))
                => records[i].number < records[j].number)
    /\ [](\A i \in 1..Len(records) :
            HasReturned(i) =>
                DiskFile(records[i].fileName,
                         buildLogContent(Trim(records[i].title), records[i].content))
                    \in disk.files)

C26_Witness ==
    /\ Len(records) = 2
    /\ HasReturned(1) /\ records[1].number = 8
    /\ HasReturned(2) /\ records[2].number = 9
    /\ logDirName = DEFAULT_LOG_DIR


\* the configured log directory resolves to a place that is not under the
\* current working directory
LogDirOutsideRoot == ~StartsWith(LogDirPath(logDirName), ROOT_DIR)

\* C27: when the configured log directory resolves to a location outside the
\* current working directory, every record-agent-log call fails, and none
\* writes anything: no directory is created, .gitignore is not modified and
\* no log file is written.
C27_OutsideWritesNothing ==
    /\ [](LogDirOutsideRoot =>
            /\ fsWrites = 0
            /\ \A i \in 1..Len(records) :
                  /\ records[i].pc = "thrown"
                  /\ Trim(records[i].title) # <<>>
                        => records[i].error = MsgLogDirOutside)
    /\ [][LogDirOutsideRoot => disk' = disk]_vars

C27_Witness ==
    /\ LogDirOutsideRoot
    /\ Len(records) = 2
    /\ records[2].error = MsgLogDirOutside
    /\ disk.dirExists = FALSE
    /\ disk.gitignore.exists = FALSE


\* the lines of a .gitignore text that name the log directory, with or
\* without the trailing slash
EntryLines(text) ==
    LET lines == SplitLines(text)
        entry == toGitignoreEntry(logDirName)
    IN  { i \in 1..Len(lines) :
            Trim(lines[i]) \in { entry, SubSeq(entry, 1, Len(entry) - 1) } }

\* C28: after successful record-agent-log calls .gitignore holds the log
\* directory entry; the file changes only when no line named the directory
\* (with or without the trailing slash), and then the whole previous text is
\* kept and the entry is appended on a line of its own, once.
C28_GitignoreEntryOnce ==
    /\ [](\A i \in 1..Len(records) :
            HasReturned(i) =>
                /\ disk.gitignore.exists
                /\ EntryLines(disk.gitignore.text) # {})
    /\ [][disk'.gitignore # disk.gitignore =>
            /\ EntryLines(disk.gitignore.text) = {}
            /\ Cardinality(EntryLines(disk'.gitignore.text)) = 1
            /\ disk'.gitignore.exists
            /\ \E sep \in { <<>>, <<"\n">> } :
                  disk'.gitignore.text =
                      disk.gitignore.text \o sep \o toGitignoreEntry(logDirName) \o <<"\n">>
            /\ Len(SplitLines(disk'.gitignore.text))
                  = (IF disk.gitignore.text = <<>> THEN 2
                     ELSE IF EndsWith(disk.gitignore.text, <<"\n">>)
                     THEN Len(SplitLines(disk.gitignore.text)) + 1
                     ELSE Len(SplitLines(disk.gitignore.text)) + 2)]_vars

C28_Witness ==
    /\ Len(records) = 2
    /\ HasReturned(1)
    /\ HasReturned(2)
    /\ disk.gitignore.text = <<"n", "o", "d", "e", "\n", "A", "g", "e", "n", "t", "L", "o", "g", "s", "/", "\n">>


\* the log the call i wrote is in the directory as it was written
LogKept(i) ==
    DiskFile(records[i].fileName,
             buildLogContent(Trim(records[i].title), records[i].content))
        \in disk.files

\* C30: two record-agent-log calls that interleave at their awaits obtain
\* distinct numbers and, once both have returned, both logs are in the
\* directory under different numbers.
C30_InterleavedCallsDistinct ==
    \A i, j \in 1..Len(records) :
        (i < j /\ HasReturned(i) /\ HasReturned(j))
            => /\ records[i].number # records[j].number
               /\ LogKept(i)
               /\ LogKept(j)



(***************************************************************************)
(* A search whose caller cancels it                                        *)
(***************************************************************************)
\* The caller of the search-logs tool cancels its request while the search
\* is running.  The handler takes only {query}: no abort signal reaches
\* searchLogs, the retry loop or fetchWithTimeout, whose controller is
\* aborted by its own timer alone, so nothing of the search changes.
CallerCancels ==
    /\ pc \notin {"idle", "returned", "thrown"}
    /\ cancelled = FALSE
    /\ cancelled' = TRUE
    /\ UNCHANGED <<env, aceSessionId, uuidCount, pc, query, baseUrl, batches, batchIdx,
                   blobNames, call, attempt, lastError, waitMs, request, controller,
                   response, outcome, callAttempts, totalAttempts, statusLog,
                   lastOutcome, inFlight, callLog, namesLog, logDirKind, readdirCalls,
                   queryArg, searches, sent, blobsArg>>
    /\ UNCHANGED applyVars
    /\ UNCHANGED storeVars

NextCancel == Next \/ CallerCancels

SpecCancel == Init /\ [][NextCancel]_vars

\* C29: when the caller cancels a running search, the attempt in flight is
\* aborted, no further upload, retry or retrieval request is issued, and the
\* search ends with an error, never with results.
C29_CancelStopsSearch ==
    /\ [][(~cancelled /\ cancelled') => inFlight' = {}]_vars
    /\ [][cancelled => totalAttempts' = totalAttempts]_vars
    /\ [](cancelled => pc # "returned")



(***************************************************************************)
(* readLog                                                                 *)
(***************************************************************************)
MsgIdentifierEmpty == <<"i", "d", "e", "n", "t", "i", "f", "i", "e", "r", " ", "u4E0Du80FDu4E3Au7A7A">>
MsgLogDirMissing == <<"u65E5u5FD7u76EEu5F55u4E0Du5B58u5728", ":", " ">>
MsgNumberNotFound == <<"u672Au627Eu5230u7F16u53F7u4E3A", " ">>
MsgInvalidFileName == <<"u65E0u6548u7684u65E5u5FD7u6587u4EF6u540D", ":", " ">>
MsgFileMissing == <<"u65E5u5FD7u6587u4EF6u4E0Du5B58u5728", ":", " ">>

\* the identifier argument of read-log: a number or a string
NumberId(n) == [kind |-> "number", number |-> n, text |-> <<>>]
StringId(text) == [kind |-> "string", number |-> 0, text |-> text]

\* files of the machine that are not entries of the log directory, by the
\* segments of their absolute path
OtherFiles ==
    { [path |-> ROOT_DIR \o << <<"R", "E", "A", "D", "M", "E", ".", "m", "d">> >>,
       content |-> <<"s", "e", "c", "r", "e", "t">>] }

\* /^\d+$/.test(text)
AllDigits(text) == text # <<>> /\ \A i \in 1..Len(text) : text[i] \in DigitSet

\* parseLogFileName(fileName) is not null: /^(\d{4})-(.*)\.md$/ matches, the
\* dot matching every character but a line terminator
ParsesAsLogName(fileName) ==
    /\ MatchesNumbered(fileName)
    /\ \A i \in 6..(Len(fileName) - 3) : fileName[i] \notin {"\n", "\r"}

\* path.join(LOG_DIR_PATH, fileName): joined and normalised
LogFilePath(fileName) ==
    NormalizeSegments(SplitOn(fileName, "/", <<>>), LogDirPath(logDirName))

ReadFailed(message) ==
    [threw |-> TRUE, error |-> message, number |-> 0, fileName |-> <<>>,
     filePath |-> <<>>, content |-> <<>>]

\* readLog from path.join on: fs.readFile and fs.stat of filePath, then the
\* returned object
ReadFileAt(fileName, number) ==
    LET filePath == LogFilePath(fileName)
        dir == LogDirPath(logDirName)
        inLogDir == /\ Len(filePath) = Len(dir) + 1
                    /\ SubSeq(filePath, 1, Len(dir)) = dir
        entries == { f \in disk.files : inLogDir /\ f.name = filePath[Len(filePath)] }
        others == { f \in OtherFiles : f.path = filePath }
        result(content) ==
            [threw |-> FALSE, error |-> <<>>, number |-> number, fileName |-> fileName,
             filePath |-> filePath, content |-> content]
    IN  IF entries # {}
        THEN (LET f == CHOOSE x \in entries : TRUE
              IN  IF f.isFile THEN result(f.content) ELSE ReadFailed(MsgIsDirectory))
        ELSE IF others # {}
        THEN result((CHOOSE x \in others : TRUE).content)
        ELSE ReadFailed(MsgFileMissing \o fileName)

\* every result readLog({identifier}) can settle with on the present disk;
\* entries.find takes the first match in the order fs.readdir lists the
\* names, an order the file system chooses
ReadLogResults(identifier) ==
    IF identifier.kind = "string" /\ identifier.text = <<>>
    THEN { ReadFailed(MsgIdentifierEmpty) }
    ELSE IF identifier.kind = "number" \/ AllDigits(identifier.text)
    THEN LET number == IF identifier.kind = "number" THEN identifier.number
                       ELSE DigitsToNat(identifier.text)
             numberText == PadStart4(NumberToString(number))
             found == { f.name : f \in { g \in disk.files :
                          /\ StartsWith(g.name, Append(numberText, "-"))
                          /\ EndsWith(g.name, MdSuffix) } }
         IN  IF ~disk.dirExists THEN { ReadFailed(MsgLogDirMissing \o logDirName) }
             ELSE IF found = {}
             THEN { ReadFailed(MsgNumberNotFound \o NumberToString(number)) }
             ELSE { ReadFileAt(fileName, number) : fileName \in found }
    ELSE IF ~ParsesAsLogName(identifier.text)
    THEN { ReadFailed(MsgInvalidFileName \o identifier.text) }
    ELSE { ReadFileAt(identifier.text, DigitsToNat(SubSeq(identifier.text, 1, 4))) }

\* identifiers given to read-log
Identifiers ==
    { NumberId(1), NumberId(2), NumberId(7), NumberId(12), NumberId(9999),
      StringId(<<>>),
      StringId(<<"1">>),
      StringId(<<"0", "0", "0", "7">>),
      StringId(<<"0", "0", "0", "1", "-", "a", ".", "m", "d">>),
      StringId(<<"0", "0", "0", "2", "-", "a", ".", "m", "d">>),
      StringId(<<"0", "0", "0", "3", "-", "c", ".", "m", "d">>),
      StringId(<<"n", "o", "t", "e", "s", ".", "m", "d">>),
      StringId(<<".", ".", "/", "R", "E", "A", "D", "M", "E", ".", "m", "d">>),
      StringId(<<"0", "0", "0", "1", "-", "/", ".", ".", "/", "0", "0", "0", "1", "-", "a", ".", "m", "d">>),
      StringId(<<"0", "0", "0", "1", "-", "/", ".", ".", "/", ".", ".", "/", "R", "E", "A", "D", "M", "E", ".", "m", "d">>) }

\* log directories that lie one level under the working directory
ReadLogDirNames == { DEFAULT_LOG_DIR, <<"l", "o", "g", "s">> }

InitReadLog ==
    /\ InitProcess
    /\ env.baseUrl = <<>>
    /\ env.apiKey = <<>>
    /\ searches = <<>>
    /\ sent = <<>>
    /\ blobsArg = <<>>
    /\ callArg \in Identifiers
    /\ callResult = <<>>
    /\ NoCancel
    /\ logDirName \in ReadLogDirNames
    /\ \E dir \in InitialLogDirs, gitignore \in InitialGitignores :
          disk = [dirExists |-> dir.dirExists, files |-> dir.files,
                  gitignore |-> gitignore]
    /\ records = <<>>
    /\ fsWrites = 0

\* readLog({identifier}) is called and settles
ReadLogSettles ==
    /\ pc = "idle"
    /\ \E result \in ReadLogResults(callArg) :
          /\ callResult' = result
          /\ pc' = IF result.threw THEN "thrown" ELSE "returned"
    /\ UNCHANGED callArg
    /\ UNCHANGED applyIdleVars

NextReadLog == ReadLogSettles

SpecReadLog == InitReadLog /\ [][NextReadLog]_vars

\* C31: whatever identifier read-log accepts (a number, a digit string or a
\* file name matching 'NNNN-<anything>.md'), the file it reads is an entry of
\* the log directory itself, never a file of a parent or another directory.
C31_ReadsInsideLogDir ==
    pc = "returned"
        => /\ Len(callResult.filePath) = Len(LogDirPath(logDirName)) + 1
           /\ SubSeq(callResult.filePath, 1, Len(LogDirPath(logDirName)))
                 = LogDirPath(logDirName)



(***************************************************************************)
(* The number limit of the log store                                       *)
(***************************************************************************)
\* a log file numbered 9999 is in the directory
HasLastNumber == \E f \in disk.files : f.isFile /\ LogNumber(f.name) = 9999

\* the call i has passed the title check and the log directory check
PassedChecks(i) ==
    /\ Trim(records[i].title) # <<>>
    /\ records[i].error # MsgLogDirOutside

\* C32: while a log file numbered 9999 exists, a record-agent-log call (one
\* that passed the title and log directory checks) ends with the 'number
\* limit reached' error, no log file is written and the files of the log
\* directory stay as they are; no log file is ever created with a number
\* above 9999 or with a number part that is not exactly four digits.
C32_NumberLimit ==
    /\ [][HasLastNumber =>
            /\ disk'.files = disk.files
            /\ \A i \in 1..Len(records') :
                  /\ records'[i].pc # "writeFile"
                  /\ records'[i].pc = "returned"
                        => (i <= Len(records) /\ records[i].pc = "returned")
                  /\ (/\ i <= Len(records)
                      /\ InProgress(records[i])
                      /\ records'[i].pc = "thrown")
                        => records'[i].error = MsgNumberLimit]_vars
    /\ [](HasLastNumber =>
            \A i \in 1..Len(records) :
                (records[i].pc = "thrown" /\ PassedChecks(i))
                    => records[i].error = MsgNumberLimit)
    /\ [](\A i \in 1..Len(records) :
            records[i].pc \in {"writeFile", "returned"} =>
                /\ records[i].number \in 1..9999
                /\ Len(DigitPrefix(records[i].fileName)) = 4
                /\ DigitsToNat(DigitPrefix(records[i].fileName)) = records[i].number
                /\ records[i].fileName[5] = "-")
    /\ [][\A f \in disk'.files \ disk.files :
            /\ MatchesNumbered(f.name)
            /\ LogNumber(f.name) <= 9999]_vars

C32_Witness ==
    /\ Len(records) = 2
    /\ records[1].pc = "returned"
    /\ records[1].number = 9999
    /\ records[2].pc = "thrown"
    /\ records[2].error = MsgNumberLimit
    /\ HasLastNumber



(***************************************************************************)
(* Reading back what was recorded                                          *)
(***************************************************************************)
\* the identifiers under which the log of the latest call can be asked for:
\* its number, the number as a digit string, its file name
RecordedIdentifiers ==
    IF records # <<>> /\ records[Len(records)].pc = "returned"
    THEN { NumberId(records[Len(records)].number),
           StringId(NumberToString(records[Len(records)].number)),
           StringId(records[Len(records)].fileName) }
    ELSE {}

\* read-log is called while no record call is under way and settles; nothing
\* writes between its awaits (readdir, readFile, stat)
ReadLogAfterRecord ==
    /\ \A i \in 1..Len(records) : ~InProgress(records[i])
    /\ \E identifier \in RecordedIdentifiers \cup { NumberId(1), StringId(<<>>) } :
          /\ callArg' = identifier
          /\ callResult' \in ReadLogResults(identifier)
    /\ UNCHANGED <<env, aceSessionId, uuidCount, pc, query, baseUrl, batches, batchIdx,
                   blobNames, call, attempt, lastError, waitMs, request, controller,
                   response, outcome, callAttempts, totalAttempts, statusLog,
                   lastOutcome, inFlight, callLog, namesLog, logDirKind, readdirCalls,
                   queryArg, searches, sent, blobsArg, cancelled>>
    /\ UNCHANGED storeVars

NextStoreRead == NextStore \/ ReadLogAfterRecord

SpecStoreRead == InitStore /\ [][NextStoreRead]_vars

\* read-log settles in this step, asked for the log of the latest call by
\* its number or its file name
ReadsLatest ==
    /\ records' = records
    /\ records # <<>>
    /\ records[Len(records)].pc = "returned"
    /\ <<callArg', callResult'>> # <<callArg, callResult>>
    /\ callArg' \in { NumberId(records[Len(records)].number),
                      StringId(records[Len(records)].fileName) }

\* C33: after a record-agent-log call returned number n and file name f, and
\* before any other record call, read-log(n) and read-log(f) both return the
\* file f with the number n and exactly the content that was written: the
\* '# title' heading followed by the right-trimmed body.
C33_ReadBackWhatWasWritten ==
    [][ReadsLatest =>
        LET r == records[Len(records)]
        IN  /\ ~callResult'.threw
            /\ callResult'.fileName = r.fileName
            /\ callResult'.number = r.number
            /\ callResult'.content = buildLogContent(Trim(r.title), r.content)]_vars
=============================================================================
